---- MODULE Spec2Model ----
(***************************************************************************)
(* Matching, scoring and analysis engine of the construction sales         *)
(* platform (src/src/services/productMatcher.js) together with the         *)
(* shipping estimator (src/src/utils/csvParser.js).                        *)
(*                                                                         *)
(* JavaScript strings that the code parses or matches against parsed data  *)
(* are sequences of tokens: a word token ("CA", "LEED") stands for a run   *)
(* of characters holding neither ';' nor white space, and the tokens ";"   *)
(* and " " stand for those characters.  Dates are milliseconds since day 0.*)
(***************************************************************************)
EXTENDS Integers, Sequences, FiniteSets, TLC

VARIABLES
    catalog,            \* allProducts: the product records handed to the matcher
    spec,               \* the project specification
    filtered,           \* findMatchingProducts: its local `filtered` after the filter chain
    matches,            \* the ranked matches findMatchingProducts returned
    analysis,           \* the analysis analyzeProject returned
    pc,                 \* how far the run has come
    warehouseState,     \* calculateShippingDays: first argument
    destinationState,   \* calculateShippingDays: second argument
    shippingDays,       \* calculateShippingDays: the value returned
    heap,               \* the array objects of interleaved runs, by reference
    run,                \* interleaved runs: each run's specification, locals and position
    storedUsers,        \* localStorage item 'users'
    storedCurrentUser,  \* localStorage item 'currentUser'
    currentUser,        \* AuthProvider: the state currentUser
    now,                \* what Date.now() returns
    thrown,             \* the message of the error the last call threw, if it threw
    savedBy             \* history: who saved a project under which id

runVars == <<heap, run>>

authVars == <<storedUsers, storedCurrentUser, currentUser, now, thrown, savedBy>>

vars == <<catalog, spec, filtered, matches, analysis, pc,
          warehouseState, destinationState, shippingDays, runVars, authVars>>

-----------------------------------------------------------------------------
(* JavaScript values *)

\* a one-word string
W(w) == <<w>>

EmptyString == <<>>

\* An optional property of an object is a sequence of length at most one:
\* <<>> when the property is undefined, <<v>> when it holds v.
Undefined == <<>>
Defined(v) == <<v>>
IsDefined(x) == x # Undefined
ValueOf(x) == x[1]

\* what String(undefined) gives
UndefinedAsString == <<"undefined">>

Range(s) == {s[i] : i \in 1..Len(s)}

\* Array.prototype.includes
Includes(arr, x) == \E i \in 1..Len(arr) : arr[i] = x

\* String.prototype.includes, the argument converted to a string
StringIncludes(s, sub) ==
    LET t == IF IsDefined(sub) THEN ValueOf(sub) ELSE UndefinedAsString
    IN  \E i \in 0..(Len(s) - Len(t)) : SubSeq(s, i + 1, i + Len(t)) = t

\* String.prototype.trim
RECURSIVE TrimLeft(_)
TrimLeft(s) == IF s # <<>> /\ Head(s) = " " THEN TrimLeft(Tail(s)) ELSE s

RECURSIVE TrimRight(_)
TrimRight(s) ==
    IF s # <<>> /\ s[Len(s)] = " " THEN TrimRight(SubSeq(s, 1, Len(s) - 1)) ELSE s

Trim(s) == TrimRight(TrimLeft(s))

\* String.prototype.split(';')
RECURSIVE SplitSemicolon(_)
SplitSemicolon(s) ==
    IF \E i \in 1..Len(s) : s[i] = ";"
    THEN LET k == CHOOSE i \in 1..Len(s) : s[i] = ";" /\ \A j \in 1..(i - 1) : s[j] # ";"
         IN  <<SubSeq(s, 1, k - 1)>> \o SplitSemicolon(SubSeq(s, k + 1, Len(s)))
    ELSE <<s>>

\* str.split(';').map(x => x.trim()).filter(x => x)
ParseList(str) ==
    LET parts == SplitSemicolon(str)
        trimmed == [i \in 1..Len(parts) |-> Trim(parts[i])]
    IN  SelectSeq(trimmed, LAMBDA x : x # EmptyString)

\* Array.prototype.join
RECURSIVE Join(_, _)
Join(arr, sep) ==
    IF arr = <<>> THEN <<>>
    ELSE IF Len(arr) = 1 THEN <<arr[1]>>
    ELSE <<arr[1], sep>> \o Join(Tail(arr), sep)

Min(a, b) == IF a <= b THEN a ELSE b
Max(a, b) == IF a >= b THEN a ELSE b

-----------------------------------------------------------------------------
(* Shipping estimator: src/src/utils/csvParser.js *)

remoteStates == {W("AK"), W("HI"), W("ME"), W("MT"), W("WY"), W("ND"), W("SD")}

\* the `regions` object, in key order
regions == <<
    [name |-> "northeast", states |-> {W("ME"), W("NH"), W("VT"), W("MA"), W("RI"),
                                       W("CT"), W("NY"), W("NJ"), W("PA")}],
    [name |-> "southeast", states |-> {W("MD"), W("DE"), W("VA"), W("WV"), W("NC"),
                                       W("SC"), W("GA"), W("FL"), W("KY"), W("TN"),
                                       W("AL"), W("MS"), W("LA"), W("AR")}],
    [name |-> "midwest",   states |-> {W("OH"), W("IN"), W("IL"), W("MI"), W("WI"),
                                       W("MN"), W("IA"), W("MO"), W("ND"), W("SD"),
                                       W("NE"), W("KS")}],
    [name |-> "southwest", states |-> {W("TX"), W("OK"), W("NM"), W("AZ")}],
    [name |-> "west",      states |-> {W("CA"), W("NV"), W("OR"), W("WA"), W("ID"),
                                       W("UT"), W("CO"), W("WY"), W("MT")}],
    [name |-> "other",     states |-> {W("AK"), W("HI")}] >>

\* the loop over Object.entries(regions): the last group listing the state, else null
RECURSIVE regionOfFrom(_, _, _)
regionOfFrom(state, i, found) ==
    IF i > Len(regions) THEN found
    ELSE regionOfFrom(state, i + 1,
                      IF state \in regions[i].states THEN regions[i].name ELSE found)

regionOf(state) == regionOfFrom(state, 1, "null")

SameStateDays == 2
CrossStateDays == 5
RemoteExtraDays == 3
SameRegionSaving == 2
MinShippingDays == 2

\* the estimator without its same-state case
calculateShippingDays_NoSameState(warehouse, destination) ==
    LET base == CrossStateDays
                + (IF warehouse \in remoteStates THEN RemoteExtraDays ELSE 0)
                + (IF destination \in remoteStates THEN RemoteExtraDays ELSE 0)
        baseDays == IF regionOf(warehouse) = regionOf(destination)
                       /\ regionOf(warehouse) # "other"
                    THEN base - SameRegionSaving
                    ELSE base
    IN  Max(baseDays, MinShippingDays)

\* the estimator taking the 2 days off in the group `other` too
calculateShippingDays_OtherReduced(warehouse, destination) ==
    IF warehouse = destination THEN SameStateDays
    ELSE LET base == CrossStateDays
                     + (IF warehouse \in remoteStates THEN RemoteExtraDays ELSE 0)
                     + (IF destination \in remoteStates THEN RemoteExtraDays ELSE 0)
             baseDays == IF regionOf(warehouse) = regionOf(destination)
                         THEN base - SameRegionSaving
                         ELSE base
         IN  Max(baseDays, MinShippingDays)

calculateShippingDays(warehouse, destination) ==
    IF warehouse = destination THEN SameStateDays
    ELSE LET isWarehouseRemote == warehouse \in remoteStates
             isDestinationRemote == destination \in remoteStates
             base == CrossStateDays
                     + (IF isWarehouseRemote THEN RemoteExtraDays ELSE 0)
                     + (IF isDestinationRemote THEN RemoteExtraDays ELSE 0)
             warehouseRegion == regionOf(warehouse)
             destinationRegion == regionOf(destination)
             baseDays == IF warehouseRegion = destinationRegion /\ warehouseRegion # "other"
                         THEN base - SameRegionSaving
                         ELSE base
         IN  Max(baseDays, MinShippingDays)

-----------------------------------------------------------------------------
(* Filter chain: src/src/services/productMatcher.js *)

\* the filter comparing the pieces of restrictedStates untrimmed
filterByLocation_Untrimmed(products, stateCode) ==
    SelectSeq(products, LAMBDA product :
        IF product.restrictedStates = EmptyString THEN TRUE
        ELSE ~Includes(SplitSemicolon(product.restrictedStates), stateCode))

filterByLocation(products, stateCode) ==
    SelectSeq(products, LAMBDA product :
        IF product.restrictedStates = EmptyString THEN TRUE
        ELSE ~Includes(ParseList(product.restrictedStates), stateCode))

\* projectType is the optional spec.projectType
filterByProjectType(products, projectType) ==
    IF ~IsDefined(projectType) \/ ValueOf(projectType) = EmptyString THEN products
    ELSE SelectSeq(products, LAMBDA product :
        IF product.applicableProjectTypes = EmptyString THEN FALSE
        ELSE Includes(ParseList(product.applicableProjectTypes), ValueOf(projectType)))

\* categories is an array, never undefined at the one call
filterByCategories(products, categories) ==
    IF Len(categories) = 0 THEN products
    ELSE SelectSeq(products, LAMBDA product : Includes(categories, product.category))

\* the filter with `some` for `every`
filterByCertifications_Some(products, requiredCerts) ==
    IF Len(requiredCerts) = 0 THEN products
    ELSE SelectSeq(products, LAMBDA product :
        IF product.certifications = EmptyString THEN FALSE
        ELSE LET productCerts == ParseList(product.certifications)
             IN  \E i \in 1..Len(requiredCerts) : Includes(productCerts, requiredCerts[i]))

filterByCertifications(products, requiredCerts) ==
    IF Len(requiredCerts) = 0 THEN products
    ELSE SelectSeq(products, LAMBDA product :
        IF product.certifications = EmptyString THEN FALSE
        ELSE LET productCerts == ParseList(product.certifications)
             IN  \A i \in 1..Len(requiredCerts) : Includes(productCerts, requiredCerts[i]))

filterByEcoPreferences(products, preferences) ==
    LET byEco == IF preferences.ecoFriendly
                 THEN SelectSeq(products, LAMBDA p : p.ecoFriendly = "Yes")
                 ELSE products
        bySustainable == IF preferences.sustainable
                         THEN SelectSeq(byEco, LAMBDA p : p.sustainableSource = "Yes")
                         ELSE byEco
        byRecyclable == IF preferences.recyclable
                        THEN SelectSeq(bySustainable, LAMBDA p : p.recyclable = "Yes")
                        ELSE bySustainable
    IN  byRecyclable

-----------------------------------------------------------------------------
(* Timeline and scoring *)

MsPerDay == 86400000

\* the check with `<` for `<=`
checkTimeline_Strict(product, requiredDate, projectState, orderDate) ==
    LET days == calculateShippingDays(product.warehouseLocation, projectState)
        totalDays == product.leadTimeDays + days
        deliveryDate == orderDate + totalDays * MsPerDay
    IN  [estimatedShippingDays |-> days,
         totalLeadTime |-> totalDays,
         estimatedDelivery |-> deliveryDate,
         meetsTimeline |-> deliveryDate < requiredDate,
         daysMargin |-> (requiredDate - deliveryDate) \div MsPerDay]

checkTimeline(product, requiredDate, projectState, orderDate) ==
    LET days == calculateShippingDays(product.warehouseLocation, projectState)
        totalDays == product.leadTimeDays + days
        deliveryDate == orderDate + totalDays * MsPerDay
    IN  [estimatedShippingDays |-> days,
         totalLeadTime |-> totalDays,
         estimatedDelivery |-> deliveryDate,
         meetsTimeline |-> deliveryDate <= requiredDate,
         daysMargin |-> (requiredDate - deliveryDate) \div MsPerDay]

AvailablePoints == 60
ProjectTypePoints == 10
PointsPerCertification == 5
MaxCertificationPoints == 10
PointsPerEcoPreference == 5
MaxEcoPoints == 10
StockPoints == 5
InstallationPoints == 5
LongWarrantyYears == 10
LongWarrantyPoints == 3
MidWarrantyYears == 5
MidWarrantyPoints == 2
OnTimePoints == 5
LatePenalty == 10
MinScore == 0
MaxScore == 100

\* One step of the scorer: the points it adds to `score` and what it pushes on
\* matchReasons and warnings.
Part(points, reasons, warns) == [points |-> points, reasons |-> reasons, warnings |-> warns]
NoPart == Part(0, <<>>, <<>>)

\* the scorer starting from no points
availabilityPart_NoBase == Part(0, << <<"Available in your location">> >>, <<>>)

availabilityPart == Part(AvailablePoints, << <<"Available in your location">> >>, <<>>)

projectTypeText(projectType) ==
    IF IsDefined(projectType) THEN ValueOf(projectType) ELSE UndefinedAsString

projectTypePart(product, s) ==
    IF StringIncludes(product.applicableProjectTypes, s.projectType)
    THEN Part(ProjectTypePoints,
              << <<"Suitable for ">> \o projectTypeText(s.projectType) \o <<" projects">> >>,
              <<>>)
    ELSE NoPart

\* the bonus without its ceiling
certificationPart_Uncapped(product, s) ==
    IF IsDefined(s.requiredCertifications) /\ Len(ValueOf(s.requiredCertifications)) > 0
    THEN LET productCerts == ParseList(product.certifications)
             matchedCerts == SelectSeq(ValueOf(s.requiredCertifications),
                                       LAMBDA reqCert : Includes(productCerts, reqCert))
         IN  IF Len(matchedCerts) > 0
             THEN Part(Len(matchedCerts) * PointsPerCertification,
                       << <<"Has ", ToString(Len(matchedCerts)), " required certification(s)">> >>,
                       <<>>)
             ELSE NoPart
    ELSE NoPart

\* the bonus given only when requireCertifications is set
certificationPart_Flagged(product, s) ==
    IF s.requireCertifications
       /\ IsDefined(s.requiredCertifications) /\ Len(ValueOf(s.requiredCertifications)) > 0
    THEN LET productCerts == ParseList(product.certifications)
             matchedCerts == SelectSeq(ValueOf(s.requiredCertifications),
                                       LAMBDA reqCert : Includes(productCerts, reqCert))
         IN  IF Len(matchedCerts) > 0
             THEN Part(Min(Len(matchedCerts) * PointsPerCertification, MaxCertificationPoints),
                       << <<"Has ", ToString(Len(matchedCerts)), " required certification(s)">> >>,
                       <<>>)
             ELSE NoPart
    ELSE NoPart

certificationPart(product, s) ==
    IF IsDefined(s.requiredCertifications) /\ Len(ValueOf(s.requiredCertifications)) > 0
    THEN LET productCerts == ParseList(product.certifications)
             matchedCerts == SelectSeq(ValueOf(s.requiredCertifications),
                                       LAMBDA reqCert : Includes(productCerts, reqCert))
         IN  IF Len(matchedCerts) > 0
             THEN Part(Min(Len(matchedCerts) * PointsPerCertification, MaxCertificationPoints),
                       << <<"Has ", ToString(Len(matchedCerts)), " required certification(s)">> >>,
                       <<>>)
             ELSE NoPart
    ELSE NoPart

\* the bonus with the ceiling at one preference's points
ecoPart_LowCeiling(product, s) ==
    LET eco == s.ecoFriendlyPreference /\ product.ecoFriendly = "Yes"
        sustainable == s.sustainablePreference /\ product.sustainableSource = "Yes"
        ecoScore == (IF eco THEN PointsPerEcoPreference ELSE 0)
                    + (IF sustainable THEN PointsPerEcoPreference ELSE 0)
    IN  Part(Min(ecoScore, PointsPerEcoPreference),
             (IF eco THEN << <<"Eco-friendly product">> >> ELSE <<>>)
             \o (IF sustainable THEN << <<"Sustainable source">> >> ELSE <<>>),
             <<>>)

ecoPart(product, s) ==
    LET eco == s.ecoFriendlyPreference /\ product.ecoFriendly = "Yes"
        sustainable == s.sustainablePreference /\ product.sustainableSource = "Yes"
        ecoScore == (IF eco THEN PointsPerEcoPreference ELSE 0)
                    + (IF sustainable THEN PointsPerEcoPreference ELSE 0)
    IN  Part(Min(ecoScore, MaxEcoPoints),
             (IF eco THEN << <<"Eco-friendly product">> >> ELSE <<>>)
             \o (IF sustainable THEN << <<"Sustainable source">> >> ELSE <<>>),
             <<>>)

stockPart(product) ==
    IF product.stockQty > 0
    THEN Part(StockPoints, << <<"In stock">> >>, <<>>)
    ELSE Part(0, <<>>, << <<"Currently out of stock">> >>)

\* the bonus given to a professional installer whatever the difficulty
installationPart_AnyProfessional(product, s) ==
    IF s.installationCapability = "DIY"
       /\ product.installationDifficulty \in {"Easy", "Moderate"}
    THEN Part(InstallationPoints, << <<"DIY-friendly installation">> >>, <<>>)
    ELSE IF s.installationCapability = "Professional"
    THEN Part(InstallationPoints, << <<"Professional installation available">> >>, <<>>)
    ELSE NoPart

\* the bonus given to Professional capability for a Complex product as well
installationPart_ComplexToo(product, s) ==
    IF s.installationCapability = "DIY"
       /\ product.installationDifficulty \in {"Easy", "Moderate"}
    THEN Part(InstallationPoints, << <<"DIY-friendly installation">> >>, <<>>)
    ELSE IF s.installationCapability = "Professional"
            /\ product.installationDifficulty \in {"Complex", "Professional Required"}
    THEN Part(InstallationPoints, << <<"Professional installation available">> >>, <<>>)
    ELSE NoPart

installationPart(product, s) ==
    IF s.installationCapability = "DIY"
       /\ product.installationDifficulty \in {"Easy", "Moderate"}
    THEN Part(InstallationPoints, << <<"DIY-friendly installation">> >>, <<>>)
    ELSE IF s.installationCapability = "Professional"
            /\ product.installationDifficulty = "Professional Required"
    THEN Part(InstallationPoints, << <<"Professional installation available">> >>, <<>>)
    ELSE NoPart

warrantyPart(product) ==
    IF product.warrantyYears >= LongWarrantyYears
    THEN Part(LongWarrantyPoints, << <<ToString(product.warrantyYears), "-year warranty">> >>, <<>>)
    ELSE IF product.warrantyYears >= MidWarrantyYears
    THEN Part(MidWarrantyPoints, << <<ToString(product.warrantyYears), "-year warranty">> >>, <<>>)
    ELSE NoPart

Abs(n) == IF n < 0 THEN -n ELSE n

\* the step taking nothing off for a late delivery
timelinePart_NoPenalty(timeline) ==
    IF timeline.meetsTimeline
    THEN Part(OnTimePoints,
              << <<"Can deliver ", ToString(timeline.daysMargin), " days before deadline">> >>,
              <<>>)
    ELSE Part(0, <<>>,
              << <<"Will be ", ToString(Abs(timeline.daysMargin)), " days late">> >>)

timelinePart(timeline) ==
    IF timeline.meetsTimeline
    THEN Part(OnTimePoints,
              << <<"Can deliver ", ToString(timeline.daysMargin), " days before deadline">> >>,
              <<>>)
    ELSE Part(-LatePenalty, <<>>,
              << <<"Will be ", ToString(Abs(timeline.daysMargin)), " days late">> >>)

\* the steps in the order the scorer takes them
scoreParts(product, s) ==
    << availabilityPart,
       projectTypePart(product, s),
       certificationPart(product, s),
       ecoPart(product, s),
       stockPart(product),
       installationPart(product, s),
       warrantyPart(product),
       timelinePart(checkTimeline(product, s.projectEndDate, s.location, s.projectStartDate)) >>

RECURSIVE SumPoints(_)
SumPoints(parts) == IF parts = <<>> THEN 0 ELSE Head(parts).points + SumPoints(Tail(parts))

RECURSIVE ConcatReasons(_)
ConcatReasons(parts) ==
    IF parts = <<>> THEN <<>> ELSE Head(parts).reasons \o ConcatReasons(Tail(parts))

RECURSIVE ConcatWarnings(_)
ConcatWarnings(parts) ==
    IF parts = <<>> THEN <<>> ELSE Head(parts).warnings \o ConcatWarnings(Tail(parts))

\* the clamp without its upper end
clampScore_NoCeiling(score) == Max(score, MinScore)

\* Math.min(Math.max(score, 0), 100)
clampScore(score) == Min(Max(score, MinScore), MaxScore)

calculateMatchScore(product, s) ==
    LET parts == scoreParts(product, s)
        timeline == checkTimeline(product, s.projectEndDate, s.location, s.projectStartDate)
    IN  [product |-> product,
         matchScore |-> clampScore(SumPoints(parts)),
         matchReasons |-> ConcatReasons(parts),
         warnings |-> ConcatWarnings(parts),
         estimatedShippingDays |-> timeline.estimatedShippingDays,
         totalLeadTime |-> timeline.totalLeadTime,
         estimatedDelivery |-> timeline.estimatedDelivery,
         meetsTimeline |-> timeline.meetsTimeline,
         daysMargin |-> timeline.daysMargin]

-----------------------------------------------------------------------------
(* Matcher *)

\* if (spec.requiredCategories && spec.requiredCategories.length > 0) ...
categoryStage(products, s) ==
    IF IsDefined(s.requiredCategories) /\ Len(ValueOf(s.requiredCategories)) > 0
    THEN filterByCategories(products, ValueOf(s.requiredCategories))
    ELSE products

\* if (spec.requireCertifications && spec.requiredCertifications) ...
certificationStage(products, s) ==
    IF s.requireCertifications /\ IsDefined(s.requiredCertifications)
    THEN filterByCertifications(products, ValueOf(s.requiredCertifications))
    ELSE products

\* the eco filter applied whatever it leaves
ecoStage_Always(products, s) ==
    IF s.ecoFriendlyPreference \/ s.sustainablePreference
    THEN filterByEcoPreferences(products,
             [ecoFriendly |-> s.ecoFriendlyPreference,
              sustainable |-> s.sustainablePreference,
              recyclable |-> FALSE])
    ELSE products

\* if (spec.ecoFriendlyPreference || spec.sustainablePreference) ...
ecoStage(products, s) ==
    IF s.ecoFriendlyPreference \/ s.sustainablePreference
    THEN LET ecoFiltered == filterByEcoPreferences(products,
                                [ecoFriendly |-> s.ecoFriendlyPreference,
                                 sustainable |-> s.sustainablePreference,
                                 recyclable |-> FALSE])
         IN  IF Len(ecoFiltered) > 0 THEN ecoFiltered ELSE products
    ELSE products

\* the filters in the order findMatchingProducts applies them
filterChain(allProducts, s) ==
    LET byLocation == filterByLocation(allProducts, s.location)
        byProjectType == filterByProjectType(byLocation, s.projectType)
        byCategories == categoryStage(byProjectType, s)
        byCertifications == certificationStage(byCategories, s)
    IN  ecoStage(byCertifications, s)

\* filtered.map(product => calculateMatchScore(product, spec))
scoreAll(products, s) == [i \in 1..Len(products) |-> calculateMatchScore(products[i], s)]

\* Array.prototype.sort is stable: an element goes behind those the comparator
\* does not put after it.
\* a comparator that never answers 0: (a, b) => b.matchScore >= a.matchScore ? 1 : -1
compareMatches_NoTie(a, b) == IF b.matchScore >= a.matchScore THEN 1 ELSE -1

\* (a, b) => b.matchScore - a.matchScore
compareMatches(a, b) == b.matchScore - a.matchScore

RECURSIVE insertByScore(_, _)
insertByScore(sorted, m) ==
    IF sorted = <<>> THEN <<m>>
    ELSE IF compareMatches(Head(sorted), m) > 0
         THEN <<m>> \o sorted
         ELSE <<Head(sorted)>> \o insertByScore(Tail(sorted), m)

RECURSIVE sortFrom(_, _)
sortFrom(sorted, rest) ==
    IF rest = <<>> THEN sorted
    ELSE sortFrom(insertByScore(sorted, Head(rest)), Tail(rest))

\* scored.sort((a, b) => b.matchScore - a.matchScore)
sortByMatchScore(scored) == sortFrom(<<>>, scored)

findMatchingProducts(allProducts, s) ==
    sortByMatchScore(scoreAll(filterChain(allProducts, s), s))

-----------------------------------------------------------------------------
(* Project analyzer *)

\* A JavaScript object with string keys is the sequence of its entries in
\* insertion order.
ObjectHas(obj, key) == \E i \in 1..Len(obj) : obj[i].key = key
ObjectGet(obj, key) == obj[CHOOSE i \in 1..Len(obj) : obj[i].key = key].value
ObjectSet(obj, key, value) ==
    IF ObjectHas(obj, key)
    THEN [i \in 1..Len(obj) |-> IF obj[i].key = key THEN [key |-> key, value |-> value]
                                                    ELSE obj[i]]
    ELSE Append(obj, [key |-> key, value |-> value])
ObjectKeys(obj) == [i \in 1..Len(obj) |-> obj[i].key]

\* matchedProducts.forEach(match => { ... byCategory[category].push(match) })
RECURSIVE groupByCategory(_, _)
groupByCategory(byCategory, matchedProducts) ==
    IF matchedProducts = <<>> THEN byCategory
    ELSE LET match == Head(matchedProducts)
             category == match.product.category
             withKey == IF ~ObjectHas(byCategory, category)
                        THEN ObjectSet(byCategory, category, <<>>)
                        ELSE byCategory
         IN  groupByCategory(
                 ObjectSet(withKey, category, Append(ObjectGet(withKey, category), match)),
                 Tail(matchedProducts))

\* the group's last match
bestOf_Last(group) == group[Len(group)]

\* const best = byCategory[category][0]
bestOf(group) == group[1]

\* Object.keys(byCategory).forEach(category => { ... }): the breakdown and the
\* running total after the categories from index i on
RECURSIVE breakdownFrom(_, _, _)
breakdownFrom(byCategory, i, acc) ==
    IF i > Len(byCategory) THEN acc
    ELSE LET category == ObjectKeys(byCategory)[i]
             best == bestOf(ObjectGet(byCategory, category))
         IN  breakdownFrom(byCategory, i + 1,
                 [categoryBreakdown |->
                      ObjectSet(acc.categoryBreakdown, category,
                                [product |-> best.product.productName,
                                 cost |-> best.product.price,
                                 deliveryDate |-> best.estimatedDelivery]),
                  estimatedTotalCost |-> acc.estimatedTotalCost + best.product.price])

costBreakdown(matchedProducts) ==
    breakdownFrom(groupByCategory(<<>>, matchedProducts), 1,
                  [categoryBreakdown |-> <<>>, estimatedTotalCost |-> 0])

\* Number.prototype.toFixed(2) of a whole number
toFixed2(n) == ToString(n) \o ".00"

\* what a check appends to risks and recommendations
\* a risk pushed without its recommendation
Finding_RiskOnly(risk, recommendation) == [risks |-> <<risk>>, recommendations |-> <<>>]

Finding(risk, recommendation) == [risks |-> <<risk>>, recommendations |-> <<recommendation>>]
NoFinding == [risks |-> <<>>, recommendations |-> <<>>]

\* the check without `spec.maxBudget &&`
budgetCheck_NoGuard(estimatedTotalCost, s) ==
    IF estimatedTotalCost > s.maxBudget
    THEN Finding(<<"Estimated cost ($", toFixed2(estimatedTotalCost),
                   ") exceeds budget ($", toFixed2(s.maxBudget), ")">>,
                 <<"Consider adjusting product selections or increasing budget">>)
    ELSE NoFinding

\* the check with `>=` for `>`
budgetCheck_AtLeast(estimatedTotalCost, s) ==
    IF s.maxBudget # 0 /\ estimatedTotalCost >= s.maxBudget
    THEN Finding(<<"Estimated cost ($", toFixed2(estimatedTotalCost),
                   ") exceeds budget ($", toFixed2(s.maxBudget), ")">>,
                 <<"Consider adjusting product selections or increasing budget">>)
    ELSE NoFinding

\* if (spec.maxBudget && analysis.estimatedTotalCost > spec.maxBudget) ...
budgetCheck(estimatedTotalCost, s) ==
    IF s.maxBudget # 0 /\ estimatedTotalCost > s.maxBudget
    THEN Finding(<<"Estimated cost ($", toFixed2(estimatedTotalCost),
                   ") exceeds budget ($", toFixed2(s.maxBudget), ")">>,
                 <<"Consider adjusting product selections or increasing budget">>)
    ELSE NoFinding

\* the late ones among the matches the breakdown takes
lateProducts_Representatives(matchedProducts) ==
    SelectSeq(matchedProducts, LAMBDA m :
        /\ ~m.meetsTimeline
        /\ m = bestOf(ObjectGet(groupByCategory(<<>>, matchedProducts), m.product.category)))

\* const lateProducts = matchedProducts.filter(m => !m.meetsTimeline)
lateProducts(matchedProducts) == SelectSeq(matchedProducts, LAMBDA m : ~m.meetsTimeline)

timelineCheck(matchedProducts) ==
    IF Len(lateProducts(matchedProducts)) > 0
    THEN Finding(<<ToString(Len(lateProducts(matchedProducts))),
                   " products cannot meet timeline">>,
                 <<"Consider adjusting timeline or selecting faster-shipping alternatives">>)
    ELSE NoFinding

\* the filter without its negation
missingCategories_Found(requiredCategories, categoryBreakdown) ==
    LET foundCategories == ObjectKeys(categoryBreakdown)
    IN  SelectSeq(requiredCategories, LAMBDA cat : Includes(foundCategories, cat))

missingCategories(requiredCategories, categoryBreakdown) ==
    LET foundCategories == ObjectKeys(categoryBreakdown)
    IN  SelectSeq(requiredCategories, LAMBDA cat : ~Includes(foundCategories, cat))

categoryCheck(categoryBreakdown, s) ==
    IF IsDefined(s.requiredCategories)
    THEN LET missing == missingCategories(ValueOf(s.requiredCategories), categoryBreakdown)
         IN  IF Len(missing) > 0
             THEN Finding(<<"No products found for categories: ">> \o Join(missing, ", "),
                          <<"Expand search criteria or consider alternative categories">>)
             ELSE NoFinding
    ELSE NoFinding

analyzeProject(matchedProducts, s) ==
    LET costs == costBreakdown(matchedProducts)
        budget == budgetCheck(costs.estimatedTotalCost, s)
        timeline == timelineCheck(matchedProducts)
        categories == categoryCheck(costs.categoryBreakdown, s)
    IN  [specification |-> s,
         recommendedProducts |-> matchedProducts,
         estimatedTotalCost |-> costs.estimatedTotalCost,
         categoryBreakdown |-> costs.categoryBreakdown,
         timelineAnalysis |-> [feasible |-> Len(lateProducts(matchedProducts)) = 0,
                               criticalPath |-> <<>>,
                               concerns |-> <<>>],
         risks |-> budget.risks \o timeline.risks \o categories.risks,
         recommendations |-> budget.recommendations \o timeline.recommendations
                             \o categories.recommendations]

-----------------------------------------------------------------------------
(* Inputs *)

Day(n) == n * MsPerDay

\* the product of Scenario A
BaseProduct ==
    [productName |-> W("Stud"), category |-> "Lumber", price |-> 100, stockQty |-> 10,
     leadTimeDays |-> 5, warehouseLocation |-> W("CA"), restrictedStates |-> EmptyString,
     applicableProjectTypes |-> W("Residential"), certifications |-> EmptyString,
     ecoFriendly |-> "No", recyclable |-> "No", sustainableSource |-> "No",
     warrantyYears |-> 0, installationDifficulty |-> "Easy"]

\* the specification of Scenario A
BaseSpec ==
    [projectType |-> Defined(W("Residential")), location |-> W("CA"), maxBudget |-> 200,
     projectStartDate |-> Day(0), projectEndDate |-> Day(20),
     requiredCategories |-> Defined(<<>>), requireCertifications |-> FALSE,
     requiredCertifications |-> Defined(<<>>), ecoFriendlyPreference |-> FALSE,
     sustainablePreference |-> FALSE, installationCapability |-> "Professional"]

\* the catalog's products: Scenario A's product and products that differ from
\* it in what the filters, the ranking and the analysis read
CatalogProducts ==
    { BaseProduct,
      [BaseProduct EXCEPT !.productName = W("Treated"),
                          !.restrictedStates = <<"NV", ";", " ", "CA">>],
      [BaseProduct EXCEPT !.productName = W("Mix"), !.category = "Concrete", !.price = 50,
                          !.applicableProjectTypes = W("Commercial"),
                          !.certifications = W("FSC"), !.warrantyYears = 10],
      [BaseProduct EXCEPT !.productName = W("Plank"), !.price = 60,
                          !.certifications = W("LEED"), !.ecoFriendly = "Yes",
                          !.applicableProjectTypes = <<"Commercial", " ", ";", "Residential">>],
      [BaseProduct EXCEPT !.productName = W("Board"), !.price = 150,
                          !.certifications = <<"FSC", ";", " ", "LEED", " ">>,
                          !.ecoFriendly = "Yes", !.sustainableSource = "Yes"],
      [BaseProduct EXCEPT !.productName = W("Beam"), !.category = "Steel", !.price = 250,
                          !.certifications = <<"LEED", ";", "FSC">>,
                          !.sustainableSource = "Yes", !.stockQty = 0,
                          !.leadTimeDays = 3] }

MaxCatalog == 3

\* a catalog lists a product once
Catalogs ==
    { c \in UNION {[1..n -> CatalogProducts] : n \in 0..MaxCatalog} :
        \A i, j \in 1..Len(c) : c[i] = c[j] => i = j }

Specifications ==
    { [BaseSpec EXCEPT !.projectType = projectType,
                       !.maxBudget = maxBudget,
                       !.projectEndDate = projectEndDate,
                       !.requiredCategories = requiredCategories,
                       !.requireCertifications = requireCertifications,
                       !.requiredCertifications = requiredCertifications,
                       !.ecoFriendlyPreference = eco,
                       !.sustainablePreference = sustainable] :
        projectType \in {Undefined, Defined(W("Residential"))},
        maxBudget \in {0, 200},
        projectEndDate \in {Day(5), Day(20)},
        requiredCategories \in {Undefined, Defined(<<>>), Defined(<<"Lumber", "Steel">>),
                                Defined(<<"Lumber", "Steel", "Concrete">>)},
        requireCertifications \in BOOLEAN,
        requiredCertifications \in {Undefined, Defined(<<>>),
                                    Defined(<<W("LEED"), W("FSC")>>)},
        eco \in BOOLEAN,
        sustainable \in BOOLEAN }

NoAnalysis == [estimatedTotalCost |-> 0]
NoState == <<>>

\* no interleaved runs
NoRuns == heap = <<>> /\ run = <<>>

\* nothing stored, nobody logged in
NoAuth ==
    /\ storedUsers = Undefined
    /\ storedCurrentUser = Undefined
    /\ currentUser = Undefined
    /\ now = 0
    /\ thrown = ""
    /\ savedBy = {}

-----------------------------------------------------------------------------
(* A matching and analysis run: App.jsx handleProjectSubmit *)

Init ==
    /\ catalog \in Catalogs
    /\ spec \in Specifications
    /\ filtered = <<>>
    /\ matches = <<>>
    /\ analysis = NoAnalysis
    /\ pc = "submitted"
    /\ warehouseState = NoState
    /\ destinationState = NoState
    /\ shippingDays = 0
    /\ NoRuns
    /\ NoAuth

FindMatches ==
    /\ pc = "submitted"
    /\ filtered' = filterChain(catalog, spec)
    /\ matches' = findMatchingProducts(catalog, spec)
    /\ pc' = "matched"
    /\ UNCHANGED <<catalog, spec, analysis, warehouseState, destinationState, shippingDays,
                   runVars, authVars>>

Analyze ==
    /\ pc = "matched"
    /\ analysis' = analyzeProject(matches, spec)
    /\ pc' = "analyzed"
    /\ UNCHANGED <<catalog, spec, filtered, matches, warehouseState, destinationState,
                   shippingDays, runVars, authVars>>

Next == FindMatches \/ Analyze

Spec == Init /\ [][Next]_vars

-----------------------------------------------------------------------------
(* The scorer alone, on one product and one specification *)

HalfDay == MsPerDay \div 2

ScoredProducts ==
    { [BaseProduct EXCEPT !.applicableProjectTypes = types,
                          !.certifications = certifications,
                          !.ecoFriendly = eco,
                          !.sustainableSource = sustainable,
                          !.stockQty = stockQty,
                          !.installationDifficulty = difficulty,
                          !.warrantyYears = warrantyYears,
                          !.leadTimeDays = leadTimeDays,
                          !.warehouseLocation = warehouse] :
        types \in {EmptyString, W("Commercial"), <<"Commercial", " ", ";", "Residential">>},
        certifications \in {EmptyString, W("LEED"),
                            <<"FSC", ";", " ", "LEED", ";", "UL", " ", "Listed">>},
        eco \in {"Yes", "No"},
        sustainable \in {"Yes", "No"},
        stockQty \in {0, 10},
        difficulty \in {"Easy", "Moderate", "Complex", "Professional Required"},
        warrantyYears \in {0, 5, 10},
        leadTimeDays \in {3, 5},
        warehouse \in {W("CA"), W("NY")} }

ScoredSpecifications ==
    { [BaseSpec EXCEPT !.projectType = projectType,
                       !.projectEndDate = projectEndDate,
                       !.requireCertifications = requireCertifications,
                       !.requiredCertifications = requiredCertifications,
                       !.ecoFriendlyPreference = eco,
                       !.sustainablePreference = sustainable,
                       !.installationCapability = capability] :
        requireCertifications \in BOOLEAN,
        projectType \in {Undefined, Defined(EmptyString), Defined(W("Residential"))},
        projectEndDate \in {Day(5), Day(7) + HalfDay, Day(20)},
        requiredCertifications \in {Undefined, Defined(<<W("LEED")>>),
                                    Defined(<<W("LEED"), <<"UL", " ", "Listed">>, W("FSC")>>)},
        eco \in BOOLEAN,
        sustainable \in BOOLEAN,
        capability \in {"DIY", "Professional"} }

InitScore ==
    /\ catalog \in {<<product>> : product \in ScoredProducts}
    /\ spec \in ScoredSpecifications
    /\ filtered = <<>>
    /\ matches = <<>>
    /\ analysis = NoAnalysis
    /\ pc = "scoring"
    /\ warehouseState = NoState
    /\ destinationState = NoState
    /\ shippingDays = 0
    /\ NoRuns
    /\ NoAuth

Score ==
    /\ pc = "scoring"
    /\ matches' = <<calculateMatchScore(catalog[1], spec)>>
    /\ pc' = "scored"
    /\ UNCHANGED <<catalog, spec, filtered, analysis, warehouseState, destinationState,
                   shippingDays, runVars, authVars>>

NextScore == Score

SpecScore == InitScore /\ [][NextScore]_vars

-----------------------------------------------------------------------------
(* The shipping estimator alone *)

\* US_STATES and two codes that are none of them
StateCodes ==
    { W(code) : code \in
        {"AL", "AK", "AZ", "AR", "CA", "CO", "CT", "DE", "FL", "GA", "HI", "ID", "IL", "IN",
         "IA", "KS", "KY", "LA", "ME", "MD", "MA", "MI", "MN", "MS", "MO", "MT", "NE", "NV",
         "NH", "NJ", "NM", "NY", "NC", "ND", "OH", "OK", "OR", "PA", "RI", "SC", "SD", "TN",
         "TX", "UT", "VT", "VA", "WA", "WV", "WI", "WY", "DC", "PR"} }

InitShip ==
    /\ warehouseState \in StateCodes
    /\ destinationState \in StateCodes
    /\ shippingDays = 0
    /\ pc = "shipping"
    /\ catalog = <<>>
    /\ spec = BaseSpec
    /\ filtered = <<>>
    /\ matches = <<>>
    /\ analysis = NoAnalysis
    /\ NoRuns
    /\ NoAuth

Ship ==
    /\ pc = "shipping"
    /\ shippingDays' = calculateShippingDays(warehouseState, destinationState)
    /\ pc' = "shipped"
    /\ UNCHANGED <<catalog, spec, filtered, matches, analysis, warehouseState,
                   destinationState, runVars, authVars>>

NextShip == Ship

SpecShip == InitShip /\ [][NextShip]_vars

-----------------------------------------------------------------------------
(* Runs step by step over array objects: findMatchingProducts and          *)
(* analyzeProject with the arrays they read, create and sort in place      *)

\* Array objects live in `heap` under their references.  filter and map
\* return a new array; a filter function that returns `products` hands back
\* the reference it was given; sort rearranges the array it is called on.
AllProductsRef == <<0, "allProducts">>
NullRef == <<0, "null">>

\* one array object for all runs at a program point
NewArray_Shared(r, at) == <<0, at>>

\* the array object a run creates at a program point
NewArray(r, at) == <<r, at>>

\* the heap with array object ref holding value
Store(h, ref, value) == (ref :> value) @@ h

Outcome(h, l) == [heap |-> h, locals |-> l]

\* the locals of a run about to start: let filtered = allProducts
StartOfRun(s) ==
    [spec |-> s, filtered |-> AllProductsRef, scored |-> NullRef,
     analysis |-> NoAnalysis, pc |-> "location"]

\* the location filter taking the prohibited products out of the array it is given
locationStep_InPlace(h, l, r) ==
    Outcome([h EXCEPT ![l.filtered] = filterByLocation(h[l.filtered], l.spec.location)],
            [l EXCEPT !.pc = "projectType"])

\* filtered = filterByLocation(filtered, spec.location)
locationStep(h, l, r) ==
    LET ref == NewArray(r, "location")
    IN  Outcome(Store(h, ref, filterByLocation(h[l.filtered], l.spec.location)),
                [l EXCEPT !.filtered = ref, !.pc = "projectType"])

\* filtered = filterByProjectType(filtered, spec.projectType)
projectTypeStep(h, l, r) ==
    LET projectType == l.spec.projectType
        ref == NewArray(r, "projectType")
    IN  IF ~IsDefined(projectType) \/ ValueOf(projectType) = EmptyString
        THEN Outcome(h, [l EXCEPT !.pc = "categories"])
        ELSE Outcome(Store(h, ref, filterByProjectType(h[l.filtered], projectType)),
                     [l EXCEPT !.filtered = ref, !.pc = "categories"])

\* if (spec.requiredCategories && ...length > 0) filtered = filterByCategories(...)
categoriesStep(h, l, r) ==
    LET categories == l.spec.requiredCategories
        ref == NewArray(r, "categories")
    IN  IF IsDefined(categories) /\ Len(ValueOf(categories)) > 0
        THEN Outcome(Store(h, ref, filterByCategories(h[l.filtered], ValueOf(categories))),
                     [l EXCEPT !.filtered = ref, !.pc = "certifications"])
        ELSE Outcome(h, [l EXCEPT !.pc = "certifications"])

\* if (spec.requireCertifications && spec.requiredCertifications)
\*     filtered = filterByCertifications(...), which returns `products` for an empty list
certificationsStep(h, l, r) ==
    LET required == l.spec.requiredCertifications
        ref == NewArray(r, "certifications")
    IN  IF l.spec.requireCertifications /\ IsDefined(required) /\ Len(ValueOf(required)) > 0
        THEN Outcome(Store(h, ref, filterByCertifications(h[l.filtered], ValueOf(required))),
                     [l EXCEPT !.filtered = ref, !.pc = "eco"])
        ELSE Outcome(h, [l EXCEPT !.pc = "eco"])

\* if (spec.ecoFriendlyPreference || spec.sustainablePreference) { ecoFiltered = ...;
\*     if (ecoFiltered.length > 0) filtered = ecoFiltered }
ecoStep(h, l, r) ==
    LET ref == NewArray(r, "eco")
        ecoFiltered == filterByEcoPreferences(h[l.filtered],
                           [ecoFriendly |-> l.spec.ecoFriendlyPreference,
                            sustainable |-> l.spec.sustainablePreference,
                            recyclable |-> FALSE])
    IN  IF l.spec.ecoFriendlyPreference \/ l.spec.sustainablePreference
        THEN Outcome(Store(h, ref, ecoFiltered),
                     [l EXCEPT !.filtered = IF Len(ecoFiltered) > 0 THEN ref ELSE @,
                               !.pc = "score"])
        ELSE Outcome(h, [l EXCEPT !.pc = "score"])

\* const scored = filtered.map(product => calculateMatchScore(product, spec))
scoreStep(h, l, r) ==
    LET ref == NewArray(r, "scored")
    IN  Outcome(Store(h, ref, scoreAll(h[l.filtered], l.spec)),
                [l EXCEPT !.scored = ref, !.pc = "sort"])

\* scored.sort(...); return scored
sortStep(h, l, r) ==
    Outcome([h EXCEPT ![l.scored] = sortByMatchScore(h[l.scored])],
            [l EXCEPT !.pc = "analyze"])

\* analyzeProject(matches, spec): recommendedProducts is the array it was given
analyzeStep(h, l, r) ==
    Outcome(h, [l EXCEPT !.analysis = [analyzeProject(h[l.scored], l.spec)
                                          EXCEPT !.recommendedProducts = l.scored],
                         !.pc = "done"])

\* a run's next step
stepOf(h, l, r) ==
    CASE l.pc = "location" -> locationStep(h, l, r)
      [] l.pc = "projectType" -> projectTypeStep(h, l, r)
      [] l.pc = "categories" -> categoriesStep(h, l, r)
      [] l.pc = "certifications" -> certificationsStep(h, l, r)
      [] l.pc = "eco" -> ecoStep(h, l, r)
      [] l.pc = "score" -> scoreStep(h, l, r)
      [] l.pc = "sort" -> sortStep(h, l, r)
      [] l.pc = "analyze" -> analyzeStep(h, l, r)

Runs == 1..2

\* the specifications of the interleaved runs: they differ in which filters
\* hand back the array they were given
RunSpecifications ==
    << BaseSpec,
       [BaseSpec EXCEPT !.projectType = Undefined, !.ecoFriendlyPreference = TRUE],
       [BaseSpec EXCEPT !.requiredCategories = Defined(<<"Lumber", "Steel">>),
                        !.requireCertifications = TRUE],
       [BaseSpec EXCEPT !.requireCertifications = TRUE,
                        !.requiredCertifications = Defined(<<W("LEED"), W("FSC")>>),
                        !.sustainablePreference = TRUE, !.projectEndDate = Day(5)],
       [BaseSpec EXCEPT !.projectType = Undefined, !.requiredCategories = Undefined,
                        !.requiredCertifications = Undefined, !.maxBudget = 0],
       [BaseSpec EXCEPT !.projectEndDate = Day(5), !.maxBudget = 0] >>

InitRuns ==
    /\ catalog \in Catalogs
    /\ heap = (AllProductsRef :> catalog)
    /\ \E i, j \in 1..Len(RunSpecifications) :
           /\ i < j
           /\ run = [r \in Runs |->
                        StartOfRun(RunSpecifications[IF r = 1 THEN i ELSE j])]
    /\ spec = BaseSpec
    /\ filtered = <<>>
    /\ matches = <<>>
    /\ analysis = NoAnalysis
    /\ pc = "runs"
    /\ warehouseState = NoState
    /\ destinationState = NoState
    /\ shippingDays = 0
    /\ NoAuth

\* run r takes the step it is at
Becomes(r, outcome) ==
    /\ heap' = outcome.heap
    /\ run' = [run EXCEPT ![r] = outcome.locals]
    /\ UNCHANGED <<catalog, spec, filtered, matches, analysis, pc,
                   warehouseState, destinationState, shippingDays, authVars>>

LocationStep(r) == run[r].pc = "location" /\ Becomes(r, locationStep(heap, run[r], r))
ProjectTypeStep(r) ==
    run[r].pc = "projectType" /\ Becomes(r, projectTypeStep(heap, run[r], r))
CategoriesStep(r) == run[r].pc = "categories" /\ Becomes(r, categoriesStep(heap, run[r], r))
CertificationsStep(r) ==
    run[r].pc = "certifications" /\ Becomes(r, certificationsStep(heap, run[r], r))
EcoStep(r) == run[r].pc = "eco" /\ Becomes(r, ecoStep(heap, run[r], r))
ScoreStep(r) == run[r].pc = "score" /\ Becomes(r, scoreStep(heap, run[r], r))
SortStep(r) == run[r].pc = "sort" /\ Becomes(r, sortStep(heap, run[r], r))
AnalyzeStep(r) == run[r].pc = "analyze" /\ Becomes(r, analyzeStep(heap, run[r], r))

NextRuns ==
    \E r \in Runs :
        \/ LocationStep(r)
        \/ ProjectTypeStep(r)
        \/ CategoriesStep(r)
        \/ CertificationsStep(r)
        \/ EcoStep(r)
        \/ ScoreStep(r)
        \/ SortStep(r)
        \/ AnalyzeStep(r)

SpecRuns == InitRuns /\ [][NextRuns]_vars

-----------------------------------------------------------------------------
(* Accounts and saved projects: src/src/contexts/AuthContext.jsx *)

\* A Date object, and the ISO string Date.prototype.toJSON gives for it
DateObject(ms) == [type |-> "Date", time |-> ms]
ISOString(ms) == [type |-> "string", time |-> ms]

\* JSON.parse(JSON.stringify(value)): a Date is written as its ISO string,
\* and JSON.parse leaves that string a string
jsonOfDate(d) == IF d.type = "Date" THEN ISOString(d.time) ELSE d

jsonOfSpecification(s) ==
    [s EXCEPT !.projectStartDate = jsonOfDate(@), !.projectEndDate = jsonOfDate(@)]

jsonOfProject(project) == [project EXCEPT !.specification = jsonOfSpecification(@)]

jsonOfProjects(projects) == [i \in 1..Len(projects) |-> jsonOfProject(projects[i])]

jsonOfUser(user) == [user EXCEPT !.projects = jsonOfProjects(@)]

jsonOfUsers(users) == [i \in 1..Len(users) |-> jsonOfUser(users[i])]

\* const users = localStorage.getItem('users'); return users ? JSON.parse(users) : []
getUsers == IF IsDefined(storedUsers) THEN ValueOf(storedUsers) ELSE <<>>

\* the copy with nothing deleted
withoutPassword_Kept(user) == user

\* const userWithoutPassword = { ...user }; delete userWithoutPassword.password
withoutPassword(user) ==
    [id |-> user.id, username |-> user.username, email |-> user.email,
     createdAt |-> user.createdAt, projects |-> user.projects]

\* Array.prototype.findIndex, counting from 1, with 0 for -1
NotFound == 0
FirstIndex(indices) ==
    IF indices = {} THEN NotFound
    ELSE CHOOSE i \in indices : \A j \in indices : i <= j

\* the index of the first user
userIndexOf_First(users, user) == IF users = <<>> THEN NotFound ELSE 1

\* users.findIndex(u => u.id === currentUser.id)
userIndexOf(users, user) == FirstIndex({i \in 1..Len(users) : users[i].id = user.id})

\* users[userIndex].projects.findIndex(p => p.id === project.id)
projectIndexOf(projects, id) == FirstIndex({i \in 1..Len(projects) : projects[i].id = id})

\* currentUser.projects || [] of the logged-in user, [] of nobody
getUserProjects ==
    IF ~IsDefined(currentUser) THEN <<>> ELSE ValueOf(currentUser).projects

\* Date.now().toString()
newId == ToString(now)

\* new Date().toISOString()
nowISOString == ISOString(now)

\* the project saveProject builds from projectData
projectOf(projectData) ==
    [id |-> IF IsDefined(projectData.id) THEN ValueOf(projectData.id) ELSE newId,
     name |-> projectData.name,
     specification |-> projectData.specification,
     orderedProducts |-> projectData.orderedProducts,
     customCategories |-> IF IsDefined(projectData.customCategories)
                          THEN ValueOf(projectData.customCategories) ELSE <<>>,
     createdAt |-> IF IsDefined(projectData.createdAt)
                   THEN ValueOf(projectData.createdAt) ELSE nowISOString,
     updatedAt |-> nowISOString]

\* saveProject pushing the project whatever its id
withProject_AlwaysAppend(users, userIndex, project) ==
    [users EXCEPT ![userIndex].projects = Append(@, project)]

\* the users array after saveProject put the project into the list of the
\* user at userIndex
withProject(users, userIndex, project) ==
    LET projects == users[userIndex].projects
        projectIndex == projectIndexOf(projects, project.id)
    IN  [users EXCEPT ![userIndex].projects =
            IF projectIndex # NotFound
            THEN [projects EXCEPT ![projectIndex] = project]
            ELSE Append(projects, project)]

\* the users array after deleteProject
withoutProject(users, userIndex, projectId) ==
    [users EXCEPT ![userIndex].projects = SelectSeq(@, LAMBDA p : p.id # projectId)]

\* users.find(u => u.username === username)
usernameExists(users, username) == \E i \in 1..Len(users) : users[i].username = username

\* register without its test of the email
emailExists_Never(users, email) == FALSE

\* users.find(u => u.email === email)
emailExists(users, email) == \E i \in 1..Len(users) : users[i].email = email

MaxTime == 8

Usernames == {"ann", "bob"}
Emails == {"ann@example.com", "bob@example.com"}
Passwords == {"secret", "guess"}

\* the specification ProjectForm submits: its dates are Date objects
FormSpecification ==
    [BaseSpec EXCEPT !.projectStartDate = DateObject(@), !.projectEndDate = DateObject(@)]

\* the projects a caller can have in hand: those getUserProjects returned and
\* those in the store
KnownProjects ==
    Range(getUserProjects)
      \cup UNION {Range(getUsers[i].projects) : i \in 1..Len(getUsers)}

\* what handleSaveProject passes: a new project from the form, or a project in hand
ProjectDatas ==
    { [id |-> Undefined, name |-> "House", specification |-> FormSpecification,
       orderedProducts |-> <<>>, customCategories |-> Undefined, createdAt |-> Undefined] }
      \cup { [id |-> Defined(p.id), name |-> p.name, specification |-> p.specification,
              orderedProducts |-> <<"Stud">>,
              customCategories |-> Defined(p.customCategories),
              createdAt |-> Defined(p.createdAt)] : p \in KnownProjects }

ProjectIds == {p.id : p \in KnownProjects} \cup {"0"}

InitAuth ==
    /\ storedUsers = Undefined
    /\ storedCurrentUser = Undefined
    /\ currentUser = Undefined
    /\ now = 1
    /\ thrown = ""
    /\ savedBy = {}
    /\ catalog = <<>>
    /\ spec = BaseSpec
    /\ filtered = <<>>
    /\ matches = <<>>
    /\ analysis = NoAnalysis
    /\ pc = "auth"
    /\ warehouseState = NoState
    /\ destinationState = NoState
    /\ shippingDays = 0
    /\ NoRuns

\* a call at a time later than the last, leaving all but the accounts alone
Call ==
    /\ now < MaxTime
    /\ now' = now + 1
    /\ UNCHANGED <<catalog, spec, filtered, matches, analysis, pc,
                   warehouseState, destinationState, shippingDays, runVars>>

\* a call that throws before it changed anything
Throws(message) ==
    /\ thrown' = message
    /\ UNCHANGED <<storedUsers, storedCurrentUser, currentUser, savedBy>>

\* setCurrentUser(user); localStorage.setItem('currentUser', JSON.stringify(user))
SetCurrentUser(user) ==
    /\ currentUser' = Defined(user)
    /\ storedCurrentUser' = Defined(jsonOfUser(user))

Register(username, password, email) ==
    /\ Call
    /\ LET users == getUsers
           newUser == [id |-> newId, username |-> username, email |-> email,
                       password |-> password, createdAt |-> nowISOString,
                       projects |-> <<>>]
       IN  IF usernameExists(users, username)
           THEN Throws("Username already exists")
           ELSE IF emailExists(users, email)
           THEN Throws("Email already exists")
           ELSE /\ storedUsers' = Defined(jsonOfUsers(Append(users, newUser)))
                /\ SetCurrentUser(withoutPassword(newUser))
                /\ thrown' = ""
                /\ UNCHANGED savedBy

Login(username, password) ==
    /\ Call
    /\ LET users == getUsers
           found == {i \in 1..Len(users) :
                        users[i].username = username /\ users[i].password = password}
       IN  IF found = {}
           THEN Throws("Invalid username or password")
           ELSE /\ SetCurrentUser(withoutPassword(users[FirstIndex(found)]))
                /\ thrown' = ""
                /\ UNCHANGED <<storedUsers, savedBy>>

Logout ==
    /\ Call
    /\ currentUser' = Undefined
    /\ storedCurrentUser' = Undefined
    /\ thrown' = ""
    /\ UNCHANGED <<storedUsers, savedBy>>

SaveProject(projectData) ==
    /\ Call
    /\ IF ~IsDefined(currentUser)
       THEN Throws("Must be logged in to save projects")
       ELSE LET users == getUsers
                userIndex == userIndexOf(users, ValueOf(currentUser))
                project == projectOf(projectData)
                saved == withProject(users, userIndex, project)
            IN  IF userIndex = NotFound
                THEN Throws("User not found")
                ELSE /\ storedUsers' = Defined(jsonOfUsers(saved))
                     /\ SetCurrentUser(withoutPassword(saved[userIndex]))
                     /\ thrown' = ""
                     /\ savedBy' = savedBy \cup {<<ValueOf(currentUser).id, project.id>>}

DeleteProject(projectId) ==
    /\ Call
    /\ IF ~IsDefined(currentUser)
       THEN Throws("Must be logged in to delete projects")
       ELSE LET users == getUsers
                userIndex == userIndexOf(users, ValueOf(currentUser))
                left == withoutProject(users, userIndex, projectId)
            IN  IF userIndex = NotFound
                THEN Throws("User not found")
                ELSE /\ storedUsers' = Defined(jsonOfUsers(left))
                     /\ SetCurrentUser(withoutPassword(left[userIndex]))
                     /\ thrown' = ""
                     /\ UNCHANGED savedBy

\* the page loaded anew: useState(null), then the effect reading localStorage
Restart ==
    /\ Call
    /\ currentUser' = storedCurrentUser
    /\ thrown' = ""
    /\ UNCHANGED <<storedUsers, storedCurrentUser, savedBy>>

NextAuth ==
    \/ \E username \in Usernames, email \in Emails : Register(username, "secret", email)
    \/ \E username \in Usernames, password \in Passwords : Login(username, password)
    \/ Logout
    \/ \E projectData \in ProjectDatas : SaveProject(projectData)
    \/ \E projectId \in ProjectIds : DeleteProject(projectId)
    \/ Restart

SpecAuth == InitAuth /\ [][NextAuth]_vars

-----------------------------------------------------------------------------
(* Terms of the claims *)

\* The one-word string <<w>> is an item of the semicolon-separated list str: w
\* stands alone, white space apart, between two separators or ends of str.
Listed(str, w) ==
    \E k \in 1..Len(str) :
        /\ str[k] = w
        /\ \E a \in 1..k, b \in k..Len(str) :
            /\ a = 1 \/ str[a - 1] = ";"
            /\ b = Len(str) \/ str[b + 1] = ";"
            /\ \A j \in a..b : j # k => str[j] = " "

ProductsOf(ms) == [i \in 1..Len(ms) |-> ms[i].product]

\* sub can be had from seq by dropping elements
RECURSIVE IsSubsequence(_, _)
IsSubsequence(sub, seq) ==
    IF sub = <<>> THEN TRUE
    ELSE IF seq = <<>> THEN FALSE
    ELSE IF Head(sub) = Head(seq) THEN IsSubsequence(Tail(sub), Tail(seq))
    ELSE IsSubsequence(sub, Tail(seq))

Matched == pc \in {"matched", "analyzed"}

-----------------------------------------------------------------------------
(* C1 *)

\* C1: no match returned by findMatchingProducts is a product whose
\* restrictedStates lists the specification's location, and no product of the
\* catalog that lists it is among the matches, whatever else it and the
\* specification hold.
C1_RegionLegality ==
    Matched =>
        /\ \A i \in 1..Len(matches) :
               ~Listed(matches[i].product.restrictedStates, spec.location[1])
        /\ \A j \in 1..Len(catalog) :
               Listed(catalog[j].restrictedStates, spec.location[1])
                   => \A i \in 1..Len(matches) : matches[i].product # catalog[j]

\* a catalog with a product prohibited at the location and one that is not
C1_Witness ==
    /\ Matched
    /\ \E j \in 1..Len(catalog) : Listed(catalog[j].restrictedStates, spec.location[1])
    /\ Len(matches) > 0
    /\ Len(matches) < Len(catalog)

-----------------------------------------------------------------------------
(* C2 *)

\* the number a message spells
NumberOf(text) == CHOOSE n \in 0..100 : ToString(n) = text

\* the points the scorer's documentation gives for what a reason reports
ReasonPoints(reason) ==
    CASE reason = <<"Available in your location">> -> 60
      [] reason[1] = "Suitable for " -> 10
      [] reason[1] = "Has " -> Min(5 * NumberOf(reason[2]), 10)
      [] reason = <<"Eco-friendly product">> -> 5
      [] reason = <<"Sustainable source">> -> 5
      [] reason = <<"In stock">> -> 5
      [] reason = <<"DIY-friendly installation">> -> 5
      [] reason = <<"Professional installation available">> -> 5
      [] Len(reason) = 2 /\ reason[2] = "-year warranty" ->
             IF NumberOf(reason[1]) >= 10 THEN 3 ELSE 2
      [] reason[1] = "Can deliver " -> 5

WarningPoints(warning) ==
    CASE warning = <<"Currently out of stock">> -> 0
      [] warning[1] = "Will be " -> -10

RECURSIVE SumReasonPoints(_)
SumReasonPoints(reasons) ==
    IF reasons = <<>> THEN 0
    ELSE ReasonPoints(Head(reasons)) + SumReasonPoints(Tail(reasons))

RECURSIVE SumWarningPoints(_)
SumWarningPoints(warns) ==
    IF warns = <<>> THEN 0
    ELSE WarningPoints(Head(warns)) + SumWarningPoints(Tail(warns))

\* the sum of the contributions a match reports
Contributions(m) == SumReasonPoints(m.matchReasons) + SumWarningPoints(m.warnings)

\* C2: the score calculateMatchScore returns is an integer from 0 to 100, the
\* sum of the contributions brought into that range.
C2_ScoreClamped ==
    pc = "scored" =>
        LET m == matches[1]
            sum == Contributions(m)
        IN  /\ m.matchScore \in 0..100
            /\ m.matchScore = IF sum < 0 THEN 0 ELSE IF sum > 100 THEN 100 ELSE sum

\* a product whose contributions sum to more than 100
C2_Witness ==
    /\ pc = "scored"
    /\ Contributions(matches[1]) > 100
    /\ matches[1].matchScore = 100

-----------------------------------------------------------------------------
(* C3 *)

ScoresOf(ms) == {ms[i].matchScore : i \in 1..Len(ms)}

\* the score the matches give a product
ScoreOfProduct(ms, product) ==
    ms[CHOOSE i \in 1..Len(ms) : ms[i].product = product].matchScore

\* C3: the matches are in non-increasing order of score; those of one score are
\* in the order the filter chain left their products in, which is the order of
\* the catalog.
C3_SortedStable ==
    Matched =>
        /\ \A i, j \in 1..Len(matches) :
               i < j => matches[i].matchScore >= matches[j].matchScore
        /\ Len(matches) = Len(filtered)
        /\ \A k \in 1..Len(filtered) :
               \E i \in 1..Len(matches) : matches[i].product = filtered[k]
        /\ \A v \in ScoresOf(matches) :
               ProductsOf(SelectSeq(matches, LAMBDA m : m.matchScore = v))
                 = SelectSeq(filtered, LAMBDA p : ScoreOfProduct(matches, p) = v)
        /\ IsSubsequence(filtered, catalog)

\* two different products of one score and a third the sort moved ahead
C3_Witness ==
    /\ Matched
    /\ ProductsOf(matches) # filtered
    /\ \E i, j \in 1..Len(matches) :
           /\ i < j
           /\ matches[i].matchScore = matches[j].matchScore
           /\ matches[i].product # matches[j].product

-----------------------------------------------------------------------------
(* C4 *)

\* C4: when requireCertifications is set and requiredCertifications is given,
\* every match holds each of the required certifications, also when the eco
\* filter was skipped for leaving nothing.
C4_AllCertifications ==
    (Matched /\ spec.requireCertifications /\ IsDefined(spec.requiredCertifications)) =>
        \A i \in 1..Len(matches) :
            \A c \in Range(ValueOf(spec.requiredCertifications)) :
                Listed(matches[i].product.certifications, c[1])

\* certifications required, a product turned away, and the eco filter skipped
C4_Witness ==
    /\ Matched
    /\ spec.requireCertifications
    /\ IsDefined(spec.requiredCertifications)
    /\ Len(ValueOf(spec.requiredCertifications)) > 1
    /\ spec.ecoFriendlyPreference
    /\ Len(matches) > 0
    /\ \A i \in 1..Len(matches) : matches[i].product.ecoFriendly = "No"
    /\ \E j \in 1..Len(catalog) :
           /\ Listed(catalog[j].certifications, "LEED")
           /\ ~Listed(catalog[j].certifications, "FSC")

-----------------------------------------------------------------------------
(* C5 *)

\* the candidates the filter chain leaves when the specification asks for no
\* eco-friendly and no sustainable products
CandidatesWithoutEco ==
    filterChain(catalog, [spec EXCEPT !.ecoFriendlyPreference = FALSE,
                                      !.sustainablePreference = FALSE])

\* those of them that meet every preference the specification states
MeetingPreferences ==
    SelectSeq(CandidatesWithoutEco, LAMBDA p :
        /\ spec.ecoFriendlyPreference => p.ecoFriendly = "Yes"
        /\ spec.sustainablePreference => p.sustainableSource = "Yes")

\* C5: with an eco-friendly or sustainable preference the candidates are those
\* meeting the preferences if there is one, and otherwise exactly the
\* candidates without the preference; candidates are never all lost to it.
C5_EcoDegradation ==
    (Matched /\ (spec.ecoFriendlyPreference \/ spec.sustainablePreference)) =>
        /\ filtered = IF MeetingPreferences # <<>> THEN MeetingPreferences
                      ELSE CandidatesWithoutEco
        /\ ProductsOf(matches) # <<>> <=> CandidatesWithoutEco # <<>>

\* candidates none of which meets the preference
C5_Witness ==
    /\ Matched
    /\ spec.ecoFriendlyPreference \/ spec.sustainablePreference
    /\ CandidatesWithoutEco # <<>>
    /\ MeetingPreferences = <<>>
    /\ Len(matches) = Len(CandidatesWithoutEco)

-----------------------------------------------------------------------------
(* C6 *)

\* C6: a match's daysMargin is 0 or more exactly when it meets the timeline,
\* negative exactly when it does not, and 0 with the timeline met when the
\* delivery falls on the end date itself.
C6_MarginSign ==
    pc = "scored" =>
        LET m == matches[1]
        IN  /\ m.daysMargin >= 0 <=> m.meetsTimeline
            /\ m.daysMargin < 0 <=> ~m.meetsTimeline
            /\ m.estimatedDelivery = spec.projectEndDate
                   => m.daysMargin = 0 /\ m.meetsTimeline

\* a delivery on the end date itself
C6_Witness ==
    /\ pc = "scored"
    /\ matches[1].estimatedDelivery = spec.projectEndDate
    /\ matches[1].daysMargin = 0
    /\ matches[1].meetsTimeline

-----------------------------------------------------------------------------
(* C7 *)

CategoriesOf(ms) == {ms[i].product.category : i \in 1..Len(ms)}

InCategory(ms, category) == SelectSeq(ms, LAMBDA m : m.product.category = category)

RECURSIVE SumCosts(_)
SumCosts(entries) ==
    IF entries = <<>> THEN 0 ELSE Head(entries).value.cost + SumCosts(Tail(entries))

\* the first, in the order the filter chain left, of the best-scored products
\* of a category
FirstBest(category) ==
    LET group == InCategory(matches, category)
        top == CHOOSE v \in ScoresOf(group) : \A w \in ScoresOf(group) : w <= v
    IN  SelectSeq(filtered, LAMBDA p :
            p.category = category /\ ScoreOfProduct(matches, p) = top)[1]

\* C7: categoryBreakdown has one entry for each category among the matches and
\* no other, the entry's cost is the price of the category's best-scored match,
\* the first of them the filter chain left when several share that score, and
\* estimatedTotalCost is the sum of the entries' costs.
C7_CategoryBreakdown ==
    pc = "analyzed" =>
        LET breakdown == analysis.categoryBreakdown
        IN  /\ \A i, j \in 1..Len(breakdown) : breakdown[i].key = breakdown[j].key => i = j
            /\ {breakdown[i].key : i \in 1..Len(breakdown)} = CategoriesOf(matches)
            /\ \A i \in 1..Len(breakdown) :
                   /\ breakdown[i].value.cost = FirstBest(breakdown[i].key).price
                   /\ breakdown[i].value.product = FirstBest(breakdown[i].key).productName
            /\ analysis.estimatedTotalCost = SumCosts(breakdown)

\* two categories, one of them with two matches of different score and price,
\* the better one behind the other in the catalog
C7_Witness ==
    /\ pc = "analyzed"
    /\ Len(analysis.categoryBreakdown) = 2
    /\ Len(matches) = 3
    /\ ProductsOf(matches) # filtered
    /\ \E i, j \in 1..Len(matches) :
           /\ i < j
           /\ matches[i].product.category = matches[j].product.category
           /\ matches[i].matchScore > matches[j].matchScore
           /\ matches[i].product.price # matches[j].product.price
           /\ analysis.estimatedTotalCost < matches[1].product.price
                  + matches[2].product.price + matches[3].product.price

-----------------------------------------------------------------------------
(* C8 *)

\* C8: calculateShippingDays returns a whole number of days from 2 to 15 for
\* every two state codes, and 2 when the two are the same.
C8_ShippingRange ==
    pc = "shipped" =>
        /\ shippingDays \in 2..15
        /\ warehouseState = destinationState => shippingDays = 2

\* a remote state shipping to itself
C8_Witness ==
    /\ pc = "shipped"
    /\ warehouseState = destinationState
    /\ warehouseState \in remoteStates
    /\ shippingDays = 2

-----------------------------------------------------------------------------
(* C9 *)

\* Scenario A: its one product and its specification, the categories and
\* certifications it does not require left out or empty
ScenarioA ==
    /\ catalog = <<BaseProduct>>
    /\ spec \in { [BaseSpec EXCEPT !.requiredCategories = categories,
                                   !.requiredCertifications = certifications] :
                    categories \in {Undefined, Defined(<<>>)},
                    certifications \in {Undefined, Defined(<<>>)} }

\* C9: in Scenario A findMatchingProducts returns the one product with 2
\* shipping days, a total lead time of 7, the timeline met and a score of 80,
\* with no installation and no warranty bonus, and analyzeProject gives an
\* estimated total cost of 100, a feasible timeline and no risks.
C9_ScenarioA ==
    ScenarioA =>
        /\ Matched =>
               /\ Len(matches) = 1
               /\ matches[1].product = BaseProduct
               /\ matches[1].estimatedShippingDays = 2
               /\ matches[1].totalLeadTime = 7
               /\ matches[1].meetsTimeline
               /\ matches[1].matchScore = 80
               /\ \A r \in Range(matches[1].matchReasons) :
                      /\ r # <<"DIY-friendly installation">>
                      /\ r # <<"Professional installation available">>
                      /\ r[Len(r)] # "-year warranty"
        /\ pc = "analyzed" =>
               /\ analysis.estimatedTotalCost = 100
               /\ analysis.timelineAnalysis.feasible
               /\ analysis.risks = <<>>

\* Scenario A analysed
C9_Witness ==
    /\ ScenarioA
    /\ spec = BaseSpec
    /\ pc = "analyzed"
    /\ analysis.estimatedTotalCost = 100

-----------------------------------------------------------------------------
(* C10 *)

IsMissingRisk(risk) == risk[1] = "No products found for categories: "

\* the categories a missing-category risk names
NamedIn(risk) == {risk[i] : i \in 2..Len(risk)} \ {", "}

\* the required categories with no entry in the breakdown
Absent ==
    {c \in Range(ValueOf(spec.requiredCategories)) :
        \A i \in 1..Len(analysis.categoryBreakdown) : analysis.categoryBreakdown[i].key # c}

MissingRisks == SelectSeq(analysis.risks, IsMissingRisk)

\* C10: with required categories listed, analyzeProject adds the
\* missing-category risk and its recommendation exactly when a required
\* category has no entry in categoryBreakdown, and the risk names exactly those
\* categories; with Lumber and Steel required and only Lumber matched it names
\* Steel and the estimated total cost is that of the Lumber entry.
C10_MissingCategories ==
    (pc = "analyzed" /\ IsDefined(spec.requiredCategories)) =>
        /\ Len(MissingRisks) = IF Absent # {} THEN 1 ELSE 0
        /\ Len(SelectSeq(analysis.recommendations, LAMBDA r :
               r = <<"Expand search criteria or consider alternative categories">>))
             = IF Absent # {} THEN 1 ELSE 0
        /\ \A i \in 1..Len(MissingRisks) : NamedIn(MissingRisks[i]) = Absent
        /\ (/\ ValueOf(spec.requiredCategories) = <<"Lumber", "Steel">>
            /\ CategoriesOf(matches) = {"Lumber"})
               => /\ NamedIn(MissingRisks[1]) = {"Steel"}
                  /\ Len(analysis.categoryBreakdown) = 1
                  /\ analysis.estimatedTotalCost = analysis.categoryBreakdown[1].value.cost

\* Lumber and Steel required, Lumber alone matched
C10_Witness ==
    /\ pc = "analyzed"
    /\ IsDefined(spec.requiredCategories)
    /\ ValueOf(spec.requiredCategories) = <<"Lumber", "Steel">>
    /\ CategoriesOf(matches) = {"Lumber"}
    /\ Len(matches) > 1
    /\ Len(MissingRisks) = 1
    /\ NamedIn(MissingRisks[1]) = {"Steel"}

-----------------------------------------------------------------------------
(* C11 *)

\* the products of an array of matches held in the heap
HeldProducts(ref) == ProductsOf(heap[ref])

\* C11: no step of a matching and analysis run changes the catalog's array,
\* its contents or its order, nor the run's specification, and the analysis
\* step leaves the array of matches it was given as it was.
C11_NoSideEffects ==
    [][ /\ heap'[AllProductsRef] = heap[AllProductsRef]
        /\ \A r \in Runs :
               /\ run'[r].spec = run[r].spec
               /\ (run[r].pc = "analyze" /\ run'[r].pc = "done")
                      => /\ run'[r].scored = run[r].scored
                         /\ heap'[run[r].scored] = heap[run[r].scored] ]_vars

\* a finished run whose sort moved a product ahead, over a catalog still in
\* its order
C11_Witness ==
    /\ pc = "runs"
    /\ \E r \in Runs :
           /\ run[r].pc = "done"
           /\ Len(heap[run[r].scored]) > 1
           /\ HeldProducts(run[r].scored) # heap[run[r].filtered]
           /\ run[r].analysis.estimatedTotalCost > 0
    /\ heap[AllProductsRef] = catalog

-----------------------------------------------------------------------------
(* C12 *)

IsBudgetRisk(risk) == risk[1] = "Estimated cost ($"
IsTimelineRisk(risk) == Len(risk) = 2 /\ risk[2] = " products cannot meet timeline"

BudgetRisks == SelectSeq(analysis.risks, IsBudgetRisk)
TimelineRisks == SelectSeq(analysis.risks, IsTimelineRisk)

\* C12: with an empty catalog, or one the filters leave nothing of,
\* findMatchingProducts returns the empty list; analyzeProject on the empty
\* list gives an estimated total cost of 0, an empty categoryBreakdown, a
\* feasible timeline and neither a budget nor a timeline risk; it adds no
\* budget risk without maxBudget and no missing-category risk without
\* requiredCategories.
C12_EmptyDegrades ==
    /\ (Matched /\ (catalog = <<>> \/ filtered = <<>>)) => matches = <<>>
    /\ (pc = "analyzed" /\ matches = <<>>) =>
           /\ analysis.estimatedTotalCost = 0
           /\ analysis.categoryBreakdown = <<>>
           /\ analysis.timelineAnalysis.feasible
           /\ BudgetRisks = <<>>
           /\ TimelineRisks = <<>>
    /\ (pc = "analyzed" /\ spec.maxBudget = 0) => BudgetRisks = <<>>
    /\ (pc = "analyzed" /\ ~IsDefined(spec.requiredCategories)) => MissingRisks = <<>>

\* a catalog the filters leave nothing of, analysed without budget and
\* without required categories
C12_Witness ==
    /\ pc = "analyzed"
    /\ catalog # <<>>
    /\ matches = <<>>
    /\ spec.maxBudget = 0
    /\ ~IsDefined(spec.requiredCategories)
    /\ analysis.estimatedTotalCost = 0
    /\ analysis.risks = <<>>

-----------------------------------------------------------------------------
(* C13 *)

\* a run taken from a state to its end with no step of another run between
RECURSIVE runFrom(_, _, _)
runFrom(h, l, r) ==
    IF l.pc = "done" THEN Outcome(h, l)
    ELSE LET next == stepOf(h, l, r) IN runFrom(next.heap, next.locals, r)

\* run r alone over a catalog
runAlone(products, s, r) == runFrom(AllProductsRef :> products, StartOfRun(s), r)

\* C13: with the steps of two runs over one catalog interleaved in any order,
\* the catalog's array is at every point what it was at the start, and a run
\* that has finished holds the ranked matches and the analysis it produces
\* when it runs alone.
C13_Isolation ==
    /\ heap[AllProductsRef] = catalog
    /\ \A r \in Runs :
           run[r].pc = "done" =>
               LET alone == runAlone(catalog, run[r].spec, r)
               IN  /\ run[r] = alone.locals
                   /\ heap[run[r].scored] = alone.heap[alone.locals.scored]

\* a run finished while the other is between its scoring and its sort, the
\* two holding different matches
C13_Witness ==
    /\ pc = "runs"
    /\ run[1].pc = "done"
    /\ run[2].pc = "sort"
    /\ Len(heap[run[1].scored]) > 1
    /\ Len(heap[run[2].scored]) > 1
    /\ HeldProducts(run[1].scored) # HeldProducts(run[2].scored)
    /\ sortByMatchScore(heap[run[2].scored]) # heap[run[2].scored]

-----------------------------------------------------------------------------
(* C14 *)

\* the record the users array holds for a user
RecordOf(users, user) == users[userIndexOf(users, user)]

\* C14: a call changes the record of no user in the store but the project
\* list of the user logged in when it is made, it removes no record, and
\* what getUserProjects returns after it are projects the logged-in user
\* saved, the ones the store lists for that user.
C14_Isolation ==
    [][ /\ Len(getUsers') >= Len(getUsers)
        /\ \A i \in 1..Len(getUsers) :
               \/ getUsers'[i] = getUsers[i]
               \/ /\ IsDefined(currentUser)
                  /\ getUsers[i].id = ValueOf(currentUser).id
                  /\ [getUsers'[i] EXCEPT !.projects = getUsers[i].projects] = getUsers[i]
        /\ \A p \in Range(getUserProjects') :
               <<ValueOf(currentUser').id, p.id>> \in savedBy'
        /\ IsDefined(currentUser') =>
               jsonOfProjects(getUserProjects') = RecordOf(getUsers', ValueOf(currentUser')).projects
      ]_vars

\* two users with a project each, the second logged in
C14_Witness ==
    /\ pc = "auth"
    /\ Len(getUsers) = 2
    /\ \A i \in 1..2 : Len(getUsers[i].projects) = 1
    /\ getUsers[1].projects[1].id # getUsers[2].projects[1].id
    /\ IsDefined(currentUser)
    /\ ValueOf(currentUser).id = getUsers[2].id
    /\ jsonOfProjects(getUserProjects) = getUsers[2].projects

-----------------------------------------------------------------------------
(* C15 *)

\* C15: after every completed call the persisted 'currentUser' record equals
\* the current user in memory, and is absent exactly when nobody is logged
\* in, so that loading the page anew restores the user as they were.
C15_PersistedEqualsCurrent ==
    /\ IsDefined(storedCurrentUser) <=> IsDefined(currentUser)
    /\ storedCurrentUser = currentUser

-----------------------------------------------------------------------------
(* C16 *)

\* the value of `score` before the clamp
ScoreBeforeClamp == SumPoints(scoreParts(catalog[1], spec))

\* the most each step of the scorer can add, summed
MaxContributions ==
    AvailablePoints + ProjectTypePoints + MaxCertificationPoints + MaxEcoPoints
      + StockPoints + InstallationPoints + LongWarrantyPoints + OnTimePoints

-----------------------------------------------------------------------------
(* C17 *)

\* the number of the two states that are remote states
RemoteEnds == (IF warehouseState \in remoteStates THEN 1 ELSE 0)
                + (IF destinationState \in remoteStates THEN 1 ELSE 0)

\* both states are listed in one of the groups named for a part of the country
InOneNamedGroup ==
    \E i \in 1..Len(regions) :
        /\ regions[i].name # "other"
        /\ warehouseState \in regions[i].states
        /\ destinationState \in regions[i].states

\* two different states, one of them at least a remote state
RemotePair ==
    /\ pc = "shipped"
    /\ warehouseState # destinationState
    /\ RemoteEnds > 0

\* C17 as claimed: between two different states of which one is remote the
\* 2 days for a shared group are never taken off: the estimate is 5 plus 3 for
\* each remote end, 8 or 11.
C17_RemoteNeverReduced ==
    RemotePair => shippingDays = 5 + 3 * RemoteEnds

\* C17 as amended: between two different states of which one is remote, the
\* estimate is 5 plus 3 for each remote end, less 2 when both states are in
\* one named group: ME, MT, WY, ND and SD are remote and in a named group, so
\* such a pair gives 6 or 9; only AK and HI, the group `other`, never get the
\* 2 days off.
C17_RemoteReducedInNamedGroup ==
    RemotePair =>
        /\ shippingDays = 5 + 3 * RemoteEnds - (IF InOneNamedGroup THEN 2 ELSE 0)
        /\ {warehouseState, destinationState} = {W("AK"), W("HI")} => shippingDays = 11
        /\ {warehouseState, destinationState} = {W("ME"), W("NH")} => shippingDays = 6
        /\ {warehouseState, destinationState} = {W("MT"), W("WY")} => shippingDays = 9

\* a remote state shipping to a state of its own named group
C17_Witness ==
    /\ RemotePair
    /\ warehouseState = W("ME")
    /\ destinationState = W("NH")
    /\ InOneNamedGroup
    /\ shippingDays = 6

-----------------------------------------------------------------------------
(* C18 *)

\* what the scorer adds to `score` for the preferences of a specification:
\* the sum with them less the sum without them
EcoPoints(s) ==
    SumPoints(scoreParts(catalog[1], s))
      - SumPoints(scoreParts(catalog[1], [s EXCEPT !.ecoFriendlyPreference = FALSE,
                                                   !.sustainablePreference = FALSE]))

EcoAlone == EcoPoints([spec EXCEPT !.sustainablePreference = FALSE])
SustainableAlone == EcoPoints([spec EXCEPT !.ecoFriendlyPreference = FALSE])

\* the product meets both preferences of a specification that states both
MeetsBoth ==
    /\ pc = "scored"
    /\ spec.ecoFriendlyPreference
    /\ spec.sustainablePreference
    /\ catalog[1].ecoFriendly = "Yes"
    /\ catalog[1].sustainableSource = "Yes"

\* C18 as claimed: a product meeting both preferences gets fewer points for
\* them than the eco-friendly match alone and the sustainable match alone
\* give together.
C18_CeilingBelowSum ==
    MeetsBoth => EcoPoints(spec) < EcoAlone + SustainableAlone

\* C18 as amended: the ceiling of 10 is the sum of the two bonuses of 5, so a
\* product meeting both preferences gets exactly what the two matches give
\* together, 10 points, with both reasons; the ceiling takes nothing off.
C18_CeilingEqualsSum ==
    MeetsBoth =>
        /\ EcoAlone = 5
        /\ SustainableAlone = 5
        /\ EcoPoints(spec) = EcoAlone + SustainableAlone
        /\ Includes(matches[1].matchReasons, <<"Eco-friendly product">>)
        /\ Includes(matches[1].matchReasons, <<"Sustainable source">>)

\* a product meeting both preferences, scored under 100
C18_Witness ==
    /\ MeetsBoth
    /\ EcoPoints(spec) = 10
    /\ matches[1].matchScore < 100
    /\ matches[1].matchScore
         = clampScore(SumPoints(scoreParts(catalog[1],
               [spec EXCEPT !.ecoFriendlyPreference = FALSE,
                            !.sustainablePreference = FALSE]))) + 10

-----------------------------------------------------------------------------
(* C19 *)

\* C19: a match's shipping days are what calculateShippingDays gives from the
\* product's warehouse to the specification's location, its total lead time
\* the product's lead time plus them, its estimated delivery the start date
\* that many days on; it meets the timeline exactly when that delivery is not
\* after the end date, and its margin is the whole days from the delivery to
\* the end date, rounded down.  The scorer adds 5 when the timeline is met and
\* takes 10 off when not, and takes nothing off anywhere else.
C19_TimelineFields ==
    pc = "scored" =>
        LET m == matches[1]
            product == catalog[1]
            parts == scoreParts(product, spec)
            left == spec.projectEndDate - m.estimatedDelivery
        IN  /\ m.estimatedShippingDays
                 = calculateShippingDays(product.warehouseLocation, spec.location)
            /\ m.estimatedShippingDays
                 = IF product.warehouseLocation = spec.location THEN 2 ELSE 5
            /\ m.totalLeadTime = product.leadTimeDays + m.estimatedShippingDays
            /\ m.estimatedDelivery = spec.projectStartDate + m.totalLeadTime * MsPerDay
            /\ m.meetsTimeline <=> m.estimatedDelivery <= spec.projectEndDate
            /\ m.daysMargin * MsPerDay <= left
            /\ left < (m.daysMargin + 1) * MsPerDay
            /\ parts[Len(parts)].points = IF m.meetsTimeline THEN 5 ELSE -10
            /\ \A i \in 1..(Len(parts) - 1) : parts[i].points >= 0
            /\ m.meetsTimeline => m.warnings \in {<<>>, << <<"Currently out of stock">> >>}
            /\ ~m.meetsTimeline =>
                   m.warnings[Len(m.warnings)]
                     = <<"Will be ", ToString(Abs(m.daysMargin)), " days late">>

\* a delivery half a day after the end date: a margin of -1 and 10 points off
C19_Witness ==
    /\ pc = "scored"
    /\ ~matches[1].meetsTimeline
    /\ matches[1].estimatedDelivery - spec.projectEndDate = HalfDay
    /\ matches[1].daysMargin = -1
    /\ matches[1].estimatedShippingDays = 5
    /\ matches[1].totalLeadTime = 8

-----------------------------------------------------------------------------
(* C20 *)

\* how many of the matches cannot meet the timeline
LateCount == Cardinality({i \in 1..Len(matches) : ~matches[i].meetsTimeline})

TimelineRecommendations ==
    SelectSeq(analysis.recommendations, LAMBDA r :
        r = <<"Consider adjusting timeline or selecting faster-shipping alternatives">>)

\* C20: analyzeProject gives timelineAnalysis.feasible false, one risk with
\* the count and one recommendation exactly when a match in the list it is
\* given cannot meet the timeline; the count is that of all such matches, not
\* of those the breakdown took; with one it reads "1 products cannot meet
\* timeline".  Otherwise feasible is true and there is no timeline risk.
C20_TimelineRisk ==
    pc = "analyzed" =>
        /\ analysis.timelineAnalysis.feasible <=> LateCount = 0
        /\ Len(TimelineRisks) = IF LateCount > 0 THEN 1 ELSE 0
        /\ Len(TimelineRecommendations) = IF LateCount > 0 THEN 1 ELSE 0
        /\ LateCount > 0 =>
               TimelineRisks[1] = <<ToString(LateCount), " products cannot meet timeline">>
        /\ LateCount = 1 =>
               TimelineRisks[1] = <<"1", " products cannot meet timeline">>

\* three late matches of one category
C20_Witness ==
    /\ pc = "analyzed"
    /\ LateCount = 3
    /\ Len(analysis.categoryBreakdown) = 1
    /\ ~analysis.timelineAnalysis.feasible
    /\ TimelineRisks = << <<"3", " products cannot meet timeline">> >>

-----------------------------------------------------------------------------
(* C21 *)

BudgetRecommendations ==
    SelectSeq(analysis.recommendations, LAMBDA r :
        r = <<"Consider adjusting product selections or increasing budget">>)

\* the budget is set and the estimated total cost is above it
OverBudget == spec.maxBudget # 0 /\ analysis.estimatedTotalCost > spec.maxBudget

\* C21: analyzeProject adds the budget risk, naming the estimated total cost
\* and the budget, and its recommendation exactly when maxBudget is set and
\* the estimated total cost is above it; a cost equal to the budget, or no
\* budget, adds no budget risk.
C21_BudgetRisk ==
    pc = "analyzed" =>
        /\ Len(BudgetRisks) = IF OverBudget THEN 1 ELSE 0
        /\ Len(BudgetRecommendations) = IF OverBudget THEN 1 ELSE 0
        /\ OverBudget =>
               BudgetRisks[1] = <<"Estimated cost ($",
                                  ToString(analysis.estimatedTotalCost) \o ".00",
                                  ") exceeds budget ($",
                                  ToString(spec.maxBudget) \o ".00", ")">>
        /\ analysis.estimatedTotalCost = spec.maxBudget => BudgetRisks = <<>>
        /\ spec.maxBudget = 0 => BudgetRisks = <<>>

\* an estimated total cost of exactly the budget
C21_Witness ==
    /\ pc = "analyzed"
    /\ spec.maxBudget = 200
    /\ analysis.estimatedTotalCost = 200
    /\ Len(analysis.categoryBreakdown) = 2
    /\ BudgetRisks = <<>>

-----------------------------------------------------------------------------
(* C22 *)

\* the test filterByProjectType keeps a product by
TypeApplies(product, s) ==
    /\ IsDefined(s.projectType)
    /\ Includes(ParseList(product.applicableProjectTypes), ValueOf(s.projectType))

TypeReasons(m) == SelectSeq(m.matchReasons, LAMBDA reason : reason[1] = "Suitable for ")

\* C22: the scorer adds the 10 points for the project type, and their reason,
\* exactly when the specification's project type is one of the product's
\* applicable project types, the test filterByProjectType makes; with no
\* project type it adds none.
C22_TypeBonus ==
    pc = "scored" =>
        LET m == matches[1]
            part == projectTypePart(catalog[1], spec)
        IN  /\ part.points = IF TypeApplies(catalog[1], spec) THEN 10 ELSE 0
            /\ Len(TypeReasons(m)) = IF TypeApplies(catalog[1], spec) THEN 1 ELSE 0
            /\ filterByProjectType(catalog, spec.projectType) = catalog
                 /\ ~TypeApplies(catalog[1], spec) => TypeReasons(m) = <<>>

-----------------------------------------------------------------------------
(* C23 *)

\* the certifications the specification lists
ListedCertifications(s) ==
    IF IsDefined(s.requiredCertifications) THEN ValueOf(s.requiredCertifications) ELSE <<>>

\* how many of them the product holds
HeldCount(product, s) ==
    Cardinality({i \in 1..Len(ListedCertifications(s)) :
        Includes(ParseList(product.certifications), ListedCertifications(s)[i])})

CertificationReasons(m) == SelectSeq(m.matchReasons, LAMBDA reason : reason[1] = "Has ")

\* C23: the certification bonus is min(5 * k, 10), k the number of the
\* specification's required certifications the product holds: 0, 5 or 10 and
\* never more; it is given whenever certifications are listed, whether or not
\* requireCertifications is set, with a reason naming k, and is 0 with no
\* reason when none is listed or none is held.
C23_CertificationBonus ==
    pc = "scored" =>
        LET m == matches[1]
            k == HeldCount(catalog[1], spec)
            part == certificationPart(catalog[1], spec)
        IN  /\ part.points = IF 5 * k < 10 THEN 5 * k ELSE 10
            /\ part.points \in {0, 5, 10}
            /\ ListedCertifications(spec) = <<>> => part.points = 0
            /\ k = 0 => CertificationReasons(m) = <<>>
            /\ k > 0 => CertificationReasons(m)
                          = << <<"Has ", ToString(k), " required certification(s)">> >>

\* three listed certifications held, requireCertifications not set: 10 points
C23_Witness ==
    /\ pc = "scored"
    /\ ~spec.requireCertifications
    /\ HeldCount(catalog[1], spec) = 3
    /\ certificationPart(catalog[1], spec).points = 10
    /\ Len(CertificationReasons(matches[1])) = 1

-----------------------------------------------------------------------------
(* C24 *)

InstallationReasons(m) ==
    SelectSeq(m.matchReasons, LAMBDA reason :
        reason \in {<<"DIY-friendly installation">>, <<"Professional installation available">>})

\* capability and difficulty go together
InstallationSuits(product, s) ==
    \/ s.installationCapability = "DIY"
         /\ product.installationDifficulty \in {"Easy", "Moderate"}
    \/ s.installationCapability = "Professional"
         /\ product.installationDifficulty = "Professional Required"

\* C24: the 5 points for installation are given exactly when the capability is
\* DIY and the difficulty Easy or Moderate, or the capability Professional and
\* the difficulty Professional Required; Professional with Complex, Easy or
\* Moderate gets none, and DIY with Complex or Professional Required gets none.
C24_InstallationBonus ==
    pc = "scored" =>
        LET m == matches[1]
            product == catalog[1]
            part == installationPart(product, spec)
        IN  /\ part.points = IF InstallationSuits(product, spec) THEN 5 ELSE 0
            /\ Len(InstallationReasons(m)) = IF InstallationSuits(product, spec) THEN 1 ELSE 0
            /\ spec.installationCapability = "Professional"
                 /\ product.installationDifficulty \in {"Complex", "Easy", "Moderate"}
                 => part.points = 0 /\ InstallationReasons(m) = <<>>
            /\ spec.installationCapability = "DIY"
                 /\ product.installationDifficulty \in {"Complex", "Professional Required"}
                 => part.points = 0 /\ InstallationReasons(m) = <<>>

\* Professional capability and a Complex product: no bonus
C24_Witness ==
    /\ pc = "scored"
    /\ spec.installationCapability = "Professional"
    /\ catalog[1].installationDifficulty = "Complex"
    /\ InstallationReasons(matches[1]) = <<>>

-----------------------------------------------------------------------------
(* C25 *)

\* a stored user has the username or the email
Taken(username, email) ==
    \E i \in 1..Len(getUsers) :
        getUsers[i].username = username \/ getUsers[i].email = email

UniqueUsers ==
    \A i, j \in 1..Len(getUsers) :
        i # j => /\ getUsers[i].username # getUsers[j].username
                 /\ getUsers[i].email # getUsers[j].email

\* C25: register with a username or an email a stored user has throws and
\* leaves the stored users, the current user and the stored session as they
\* were; so no two stored users ever share a username or an email.
C25_RegisterUnique ==
    /\ [][\A username \in Usernames, email \in Emails :
            Register(username, "secret", email) /\ Taken(username, email)
              => /\ thrown' \in {"Username already exists", "Email already exists"}
                 /\ UNCHANGED <<storedUsers, currentUser, storedCurrentUser>>]_vars
    /\ []UniqueUsers

\* register refused for its email, one user stored and logged in
C25_Witness ==
    /\ thrown = "Email already exists"
    /\ Len(getUsers) = 1
    /\ IsDefined(currentUser)

-----------------------------------------------------------------------------
(* C26 *)

\* where a list of projects has the id
IndicesOf(projects, id) == {i \in 1..Len(projects) : projects[i].id = id}

UniqueProjectIds ==
    /\ \A u \in 1..Len(getUsers) : \A i, j \in 1..Len(getUsers[u].projects) :
           i # j => getUsers[u].projects[i].id # getUsers[u].projects[j].id
    /\ \A i, j \in 1..Len(getUserProjects) :
           i # j => getUserProjects[i].id # getUserProjects[j].id

\* what saveProject does to the stored list of the user logged in
SavedAsUpsert(projectData) ==
    LET user == ValueOf(currentUser)
        before == RecordOf(getUsers, user).projects
        after == RecordOf(getUsers', user).projects
        id == IF IsDefined(projectData.id) THEN ValueOf(projectData.id) ELSE ToString(now)
    IN  /\ IF IndicesOf(before, id) # {}
           THEN /\ Len(after) = Len(before)
                /\ \A i \in 1..Len(before) :
                       IF before[i].id = id
                       THEN /\ after[i].id = id
                            /\ after[i].orderedProducts = projectData.orderedProducts
                            /\ IsDefined(projectData.createdAt)
                                 => after[i].createdAt = ValueOf(projectData.createdAt)
                       ELSE after[i] = before[i]
           ELSE /\ Len(after) = Len(before) + 1
                /\ SubSeq(after, 1, Len(before)) = before
                /\ after[Len(after)].id = id
        /\ Cardinality(IndicesOf(after, id)) = 1
        /\ Cardinality(IndicesOf(getUserProjects', id)) = 1

\* what deleteProject does to it
Deleted(projectId) ==
    LET user == ValueOf(currentUser)
        before == RecordOf(getUsers, user).projects
        after == RecordOf(getUsers', user).projects
    IN  /\ IndicesOf(after, projectId) = {}
        /\ IndicesOf(getUserProjects', projectId) = {}
        /\ after = SelectSeq(before, LAMBDA p : p.id # projectId)

\* C26: saveProject replaces in place the entry of the logged-in user's list
\* that has the project's id, leaving the length, the position and the other
\* entries as they were and keeping a supplied createdAt, and appends one
\* entry when no entry has the id; a project saved twice is listed once;
\* deleteProject removes every entry with the id; no two projects of a user
\* ever share an id; with nobody logged in both throw and change nothing.
C26_Upsert ==
    /\ [][ /\ \A projectData \in ProjectDatas :
                SaveProject(projectData) =>
                    IF IsDefined(currentUser) THEN SavedAsUpsert(projectData)
                    ELSE /\ thrown' = "Must be logged in to save projects"
                         /\ UNCHANGED <<storedUsers, currentUser, storedCurrentUser>>
           /\ \A projectId \in ProjectIds :
                DeleteProject(projectId) =>
                    IF IsDefined(currentUser) THEN Deleted(projectId)
                    ELSE /\ thrown' = "Must be logged in to delete projects"
                         /\ UNCHANGED <<storedUsers, currentUser, storedCurrentUser>>
         ]_vars
    /\ []UniqueProjectIds

\* two projects listed, the first saved again after the second was added
C26_Witness ==
    /\ IsDefined(currentUser)
    /\ Len(getUserProjects) = 2
    /\ Len(getUsers[1].projects) = 2
    /\ getUsers[1].projects[1].updatedAt.time > getUsers[1].projects[2].updatedAt.time
    /\ getUsers[1].projects[1].createdAt.time < getUsers[1].projects[2].createdAt.time
    /\ getUsers[1].projects[1].orderedProducts = <<"Stud">>

-----------------------------------------------------------------------------
(* C27 *)

\* C27: every match scores at least 50, so the lower end of the clamp changes
\* no score: the only step that takes points off is the timeline's 10 against
\* the 60 every product starts with; a product that misses the timeline has
\* at most 93 before the clamp.
C27_ScoreAtLeast50 ==
    pc = "scored" =>
        LET m == matches[1]
            parts == scoreParts(catalog[1], spec)
        IN  /\ m.matchScore >= 50
            /\ Contributions(m) >= 50
            /\ ScoreBeforeClamp = Contributions(m)
            /\ Max(ScoreBeforeClamp, 0) = ScoreBeforeClamp
            /\ parts[1].points = 60
            /\ \A i \in 1..Len(parts) :
                   parts[i].points < 0 => i = Len(parts) /\ parts[i].points = -10
            /\ ~m.meetsTimeline => ScoreBeforeClamp <= 93 /\ m.matchScore = ScoreBeforeClamp

\* a late product with every bonus: 93
C27_Witness ==
    /\ pc = "scored"
    /\ ~matches[1].meetsTimeline
    /\ ScoreBeforeClamp = 93
    /\ matches[1].matchScore = 93

-----------------------------------------------------------------------------
(* C28 *)

\* the check a risk comes from: 1 budget, 2 timeline, 3 missing categories
RiskKind(risk) ==
    CASE IsBudgetRisk(risk) -> 1
      [] IsTimelineRisk(risk) -> 2
      [] IsMissingRisk(risk) -> 3

\* the check a recommendation comes from
RecommendationKind(recommendation) ==
    CASE recommendation = <<"Consider adjusting product selections or increasing budget">> -> 1
      [] recommendation
           = <<"Consider adjusting timeline or selecting faster-shipping alternatives">> -> 2
      [] recommendation = <<"Expand search criteria or consider alternative categories">> -> 3

-----------------------------------------------------------------------------
(* C29 *)

\* the state is listed in no group
InNoGroup(state) == \A i \in 1..Len(regions) : state \notin regions[i].states

\* C29: between two different states the 2 days for a shared group are taken
\* off only when both are listed in one named group; two different codes
\* listed in no group get nothing off, 5 days when neither is remote.
C29_ReductionOnlyWithinGroup ==
    pc = "shipped" /\ warehouseState # destinationState =>
        /\ shippingDays < 5 + 3 * RemoteEnds => InOneNamedGroup
        /\ InNoGroup(warehouseState) /\ InNoGroup(destinationState) =>
               shippingDays = 5 + 3 * RemoteEnds /\ shippingDays = 5

-----------------------------------------------------------------------------
(* C30 *)

HasPassword(user) == "password" \in DOMAIN user

\* C30: after any calls of register, login, logout, saveProject and
\* deleteProject neither the current user in memory nor the stored
\* 'currentUser' record has a password; the passwords are in the stored
\* 'users' only.
C30_NoPasswordInSession ==
    /\ IsDefined(currentUser) => ~HasPassword(ValueOf(currentUser))
    /\ IsDefined(storedCurrentUser) => ~HasPassword(ValueOf(storedCurrentUser))
    /\ \A i \in 1..Len(getUsers) : HasPassword(getUsers[i])

\* a user logged in after a save, the password in the store alone
C30_Witness ==
    /\ IsDefined(currentUser)
    /\ IsDefined(storedCurrentUser)
    /\ Len(getUserProjects) = 1
    /\ RecordOf(getUsers, ValueOf(currentUser)).password = "secret"
    /\ ~HasPassword(ValueOf(currentUser))
    /\ ~HasPassword(ValueOf(storedCurrentUser))

====
